---------------------------- MODULE Spec2Model ----------------------------
(***************************************************************************)
(* ZIP puzzle core: board model, path validator, Hamiltonian generator,    *)
(* clue selector, uniqueness counter and constrained solver, modelled from *)
(* src/src/core/board.py, src/src/core/generator.py, src/src/core/solver.py*)
(* and src/src/config/config.py, with the callers of src/src/main.py,      *)
(* src/src/zip_llm_tests.py and src/src/UI/GUI.py.                         *)
(*                                                                         *)
(* Spec follows one call of generate_unique_puzzle and the caller that     *)
(* builds a Board from its results and solves it; SpecValidate applies     *)
(* validate_path, twice, to boards and paths drawn from bounded sets;      *)
(* SpecSearch applies count_solutions or solve_backtracking to boards,     *)
(* limits and deadlines drawn from bounded sets; SpecTerminate follows a   *)
(* generate_unique_puzzle call to its return or RuntimeError; SpecDfs      *)
(* follows the three depth-first searches one step of dfs at a time;       *)
(* SpecNeighbors applies Board.neighbors; SpecGame follows a Game session, *)
(* the main thread's event handlers interleaved with the steps of the      *)
(* thread running solve_with_llm, and SpecHuman a session without it.      *)
(*                                                                         *)
(* Conventions.  A coordinate is <<r, c>>, 0-indexed as in the source.  A  *)
(* grid is a function grid[r][c] over 0..n-1.  A Python list is a sequence *)
(* (list index i is sequence index i+1).  A dict is a function whose       *)
(* DOMAIN is the key set; dict.get(key) of an absent key is None.          *)
(***************************************************************************)
EXTENDS Integers, Sequences, FiniteSets, TLC

(***************************************************************************)
(* Generic helpers                                                         *)
(***************************************************************************)

\* Python's None where an int is expected; only its falsiness is ever read
\* (`if actual_step:`), and no step or display number is 0.
None == 0

\* Python's None where a coordinate is expected (`if target:`): falsy, like
\* the empty tuple, while every coordinate pair is truthy.
NoCoord == <<>>

Max(a, b) == IF a >= b THEN a ELSE b

Min(a, b) == IF a <= b THEN a ELSE b

SetMax(S) == CHOOSE x \in S : \A y \in S : y <= x

Range(s) == {s[i] : i \in 1..Len(s)}

\* dict.get(key)
Get(d, key) == IF key \in DOMAIN d THEN d[key] ELSE None

\* dict.get(key) for a dict of coordinates
GetCoord(d, key) == IF key \in DOMAIN d THEN d[key] ELSE NoCoord

\* str(tuple) of a coordinate, as an f-string prints it: "(r, c)"
CellStr(cell) == "(" \o ToString(cell[1]) \o ", " \o ToString(cell[2]) \o ")"

\* sorted(S) of a set of integers, ascending
RECURSIVE SortedSeq(_)
SortedSeq(S) ==
    IF S = {} THEN <<>>
    ELSE LET m == CHOOSE x \in S : \A y \in S : x <= y
         IN  <<m>> \o SortedSeq(S \ {m})

(***************************************************************************)
(* Board  (src/src/core/board.py)                                          *)
(***************************************************************************)

\* The 4-way deltas, in the order of the source's list
Moves4 == << <<-1, 0>>, <<1, 0>>, <<0, -1>>, <<0, 1>> >>

\* deltas += [(-1,-1),(-1,1),(1,-1),(1,1)] when diag
Moves8 == Moves4 \o << <<-1, -1>>, <<-1, 1>>, <<1, -1>>, <<1, 1>> >>

\* A faulty delta list with (1, 1) twice and (1, -1) missing
DeltasLopsided(diag) ==
    IF diag
    THEN Moves4 \o << <<-1, -1>>, <<-1, 1>>, <<1, 1>>, <<1, 1>> >>
    ELSE Moves4

Deltas(diag) == IF diag THEN Moves8 ELSE Moves4

\* Board(grid, k, diag, display_to_step, step_to_display)
Board(grid, k, diag, d2s, s2d) ==
    [grid |-> grid, k |-> k, diag |-> diag,
     display_to_step |-> d2s, step_to_display |-> s2d]

\* A dict field left at its default None; falsy like the empty dict
NoDict == [x \in {} |-> 0]

\* Board.n: len(self.grid)
BoardN(board) == Cardinality(DOMAIN board.grid)

\* Board.in_bounds
in_bounds(board, r, c) ==
    /\ 0 <= r /\ r < BoardN(board)
    /\ 0 <= c /\ c < BoardN(board)

\* Board.neighbors(r, c, diag): the in-bounds cells r+dr, c+dc, in delta order
neighbors(board, r, c, diag) ==
    LET deltas == Deltas(diag)
        all == [i \in 1..Len(deltas) |-> <<r + deltas[i][1], c + deltas[i][2]>>]
    IN  SelectSeq(all, LAMBDA cell : in_bounds(board, cell[1], cell[2]))

\* The true step a display value stands for in givens(): through
\* display_to_step when that dict is truthy (None when the key is absent),
\* else the display value itself
GivenStep(board, display_val) ==
    IF DOMAIN board.display_to_step # {}
    THEN Get(board.display_to_step, display_val)
    ELSE display_val

\* Board.givens(): actual step -> coordinate.  The scan is row-major and a
\* later cell overwrites an earlier one that maps to the same step.
givens(board) ==
    LET n == BoardN(board)
        stepAt(r, c) == IF board.grid[r][c] # 0
                        THEN GivenStep(board, board.grid[r][c]) ELSE None
        cells == {rc \in (0..n-1) \X (0..n-1) : stepAt(rc[1], rc[2]) # None}
        steps == {stepAt(rc[1], rc[2]) : rc \in cells}
        last(s) == CHOOSE rc \in cells :
                      /\ stepAt(rc[1], rc[2]) = s
                      /\ \A o \in cells : stepAt(o[1], o[2]) = s
                            => o[1] * n + o[2] <= rc[1] * n + rc[2]
    IN  [s \in steps |-> last(s)]

(***************************************************************************)
(* validate_path  (src/src/core/board.py)                                  *)
(***************************************************************************)

\* A faulty loop body that never tests the step for adjacency
\* (the `cell not in board.neighbors(...)` test left out)
CellFailureAdjacencyUnchecked(board, path, diag, j) ==
    LET cell == path[j]
    IN  IF \E h \in 1..(j - 1) : path[h] = cell
        THEN "Cell " \o CellStr(cell) \o " repeated"
        ELSE IF ~in_bounds(board, cell[1], cell[2])
        THEN "Cell " \o CellStr(cell) \o " out of bounds"
        ELSE ""

\* The first check of the `for i, cell in enumerate(path)` loop that cell
\* j (sequence index, = i+1) fails, "" when it passes them all.  `seen`
\* holds the cells before j, every one of which passed.
CellFailure(board, path, diag, j) ==
    LET cell == path[j]
        i == j - 1
    IN  IF \E h \in 1..(j - 1) : path[h] = cell
        THEN "Cell " \o CellStr(cell) \o " repeated"
        ELSE IF ~in_bounds(board, cell[1], cell[2])
        THEN "Cell " \o CellStr(cell) \o " out of bounds"
        ELSE IF i > 0 /\ cell \notin
                   Range(neighbors(board, path[j-1][1], path[j-1][2], diag))
        THEN "Step " \o ToString(i) \o "->" \o ToString(i + 1)
               \o " not adjacent"
        ELSE ""

\* The `for i, cell in enumerate(path)` loop: <<FALSE, reason>> of the
\* first cell that fails a check, or <<TRUE, clue_positions>> when the loop
\* runs to its end, clue_positions[display_val] = i + 1 as last assigned.
ValidateCells(board, path, diag) ==
    LET failing == {j \in 1..Len(path) : CellFailure(board, path, diag, j) # ""}
        first == CHOOSE j \in failing : \A h \in failing : j <= h
        display(j) == board.grid[path[j][1]][path[j][2]]
        shown == {display(j) : j \in 1..Len(path)} \ {0}
    IN  IF failing # {}
        THEN <<FALSE, CellFailure(board, path, diag, first)>>
        ELSE <<TRUE, [d \in shown |->
                        SetMax({j \in 1..Len(path) : display(j) = d})]>>

\* A faulty clue check that reports a clue 1 away from the start as
\* missing (`clue_positions.get(1) != 1` tested first)
ValidateCluesStartMerged(path, clue_positions) ==
    IF Get(clue_positions, 1) # 1
    THEN <<FALSE, "Must start at clue 1">>
    ELSE <<TRUE, "OK">>

\* A faulty clue check that lets the path run on past the highest clue
\* (the `highest_clue_pos != len(path)` test left out)
ValidateCluesEndUnchecked(path, clue_positions) ==
    IF 1 \notin DOMAIN clue_positions
    THEN <<FALSE, "Must start at clue 1">>
    ELSE IF clue_positions[1] # 1
    THEN <<FALSE, "Clue 1 must be at the start">>
    ELSE
      LET sorted_clues == SortedSeq(DOMAIN clue_positions)
          disorder == {j \in 2..Len(sorted_clues) :
                         clue_positions[sorted_clues[j]]
                            <= clue_positions[sorted_clues[j-1]]}
          gaps == {i \in 1..Len(sorted_clues) : sorted_clues[i] # i}
      IN  IF disorder # {}
          THEN <<FALSE, "Clues out of order">>
          ELSE IF gaps # {}
          THEN <<FALSE, "Missing or skipped clue number "
                          \o ToString(CHOOSE i \in gaps : \A g \in gaps : i <= g)>>
          ELSE <<TRUE, "OK">>

\* A faulty clue check that never compares the positions of the clues
\* (the `clue_positions[...] <= clue_positions[...]` loop left out)
ValidateCluesOrderUnchecked(path, clue_positions) ==
    IF 1 \notin DOMAIN clue_positions
    THEN <<FALSE, "Must start at clue 1">>
    ELSE IF clue_positions[1] # 1
    THEN <<FALSE, "Clue 1 must be at the start">>
    ELSE
      LET sorted_clues == SortedSeq(DOMAIN clue_positions)
          gaps == {i \in 1..Len(sorted_clues) : sorted_clues[i] # i}
          highest_clue == sorted_clues[Len(sorted_clues)]
      IN  IF gaps # {}
          THEN <<FALSE, "Missing or skipped clue number "
                          \o ToString(CHOOSE i \in gaps : \A g \in gaps : i <= g)>>
          ELSE IF clue_positions[highest_clue] # Len(path)
          THEN <<FALSE, "Path must end at clue " \o ToString(highest_clue)
                          \o ", not continue beyond it">>
          ELSE <<TRUE, "OK">>

\* The checks after the loop, on the clue positions it recorded
ValidateClues(path, clue_positions) ==
    IF 1 \notin DOMAIN clue_positions
    THEN <<FALSE, "Must start at clue 1">>
    ELSE IF clue_positions[1] # 1
    THEN <<FALSE, "Clue 1 must be at the start">>
    ELSE
      LET sorted_clues == SortedSeq(DOMAIN clue_positions)
          disorder == {j \in 2..Len(sorted_clues) :
                         clue_positions[sorted_clues[j]]
                            <= clue_positions[sorted_clues[j-1]]}
          gaps == {i \in 1..Len(sorted_clues) : sorted_clues[i] # i}
          highest_clue == sorted_clues[Len(sorted_clues)]
      IN  IF disorder # {}
          THEN <<FALSE, "Clues out of order">>
          ELSE IF gaps # {}
          THEN <<FALSE, "Missing or skipped clue number "
                          \o ToString(CHOOSE i \in gaps : \A g \in gaps : i <= g)>>
          ELSE IF clue_positions[highest_clue] # Len(path)
          THEN <<FALSE, "Path must end at clue " \o ToString(highest_clue)
                          \o ", not continue beyond it">>
          ELSE <<TRUE, "OK">>

\* A faulty validate_path that checks the length after the cells
ValidateLengthLast(board, path, diag) ==
    LET loop == ValidateCells(board, path, diag)
    IN  IF ~loop[1] THEN loop
        ELSE IF Len(path) # board.k
        THEN <<FALSE, "Expected " \o ToString(board.k) \o " steps, got "
                        \o ToString(Len(path))>>
        ELSE ValidateClues(path, loop[2])

\* A faulty validate_path that reports a wrong length with a bare False
\* (an empty reason)
ValidateLengthUnreasoned(board, path, diag) ==
    IF Len(path) # board.k
    THEN <<FALSE, "">>
    ELSE LET loop == ValidateCells(board, path, diag)
         IN  IF ~loop[1] THEN loop ELSE ValidateClues(path, loop[2])

\* validate_path(board, path, diag) -> (ok, reason)
validate_path(board, path, diag) ==
    IF Len(path) # board.k
    THEN <<FALSE, "Expected " \o ToString(board.k) \o " steps, got "
                    \o ToString(Len(path))>>
    ELSE LET loop == ValidateCells(board, path, diag)
         IN  IF ~loop[1] THEN loop ELSE ValidateClues(path, loop[2])

(***************************************************************************)
(* Configuration  (src/src/config/config.py)                               *)
(***************************************************************************)

MAX_GEN_ATTEMPTS == 40

FAST_MODE == TRUE

FAST_MODE_THRESHOLD == 10

ADJACENCY_8_WAY == FALSE

\* get_clue_bounds(n) -> (start, max_clues)
get_clue_bounds(n) == <<Max(4, n), Min(n * n, n + 8)>>

(***************************************************************************)
(* Bounds of the model.  The source draws from a process-wide random       *)
(* source and reads a wall clock; the model draws the same values from     *)
(* the sets below.                                                         *)
(***************************************************************************)

\* Boards up to this size, generated with the adjacency every caller
\* passes (config.ADJACENCY_8_WAY), take every outcome of random.shuffle;
\* the others take the outcomes fixed below, from which the searches
\* finish in a number of steps TLC can evaluate.
FullRandomN == 3

FullRandom(n, diag) == n <= FullRandomN /\ diag = ADJACENCY_8_WAY

\* Without FullRandom the shuffled `extras` list is one of the rotations
\* 0..MaxShift of range(2, k).
MaxShift == 1

\* The wall-clock deadline of a search on k cells passes at its first
\* recursive entry, at an entry within MaxSlack of the k-th (the entry
\* that completes a path found without backtracking), or not at all.
MaxSlack == 2

\* The board sizes generated: the smallest size of config.BOARD_SIZES, a
\* size below FAST_MODE_THRESHOLD and a size at it.
Sizes == {3, 7, 10}

\* A deadline that never passes
NoDeadline == 0

\* The deadlines drawn for a search on a board of k cells: the recursive
\* entry (counted from 1) at which time.time() - start_time > time_limit
\* first holds.
Deadlines(k) ==
    {NoDeadline, 1} \cup {d \in (k - MaxSlack)..(k + MaxSlack) : d >= 1}

\* time.time() - start_time > time_limit at the tick-th recursive entry
Expired(tick, deadline) == deadline # NoDeadline /\ tick >= deadline

(***************************************************************************)
(* Hamiltonian generator  (src/src/core/generator.py)                      *)
(***************************************************************************)

\* _random_saw_cover_all returning None (`if not path`)
NoPath == <<>>

\* cells = [(r, c) for r in range(n) for c in range(n)]
Cells(n) == (0..n-1) \X (0..n-1)

\* random.choice(cells): a corner, an edge cell or an inner cell (on the
\* 3x3 board every cell is the image of one of them under a symmetry of
\* the board); on boards above FullRandomN the corner
StartChoices(n) ==
    IF n <= FullRandomN
    THEN {<<0, 0>>, <<0, n \div 2>>, <<n \div 2, n \div 2>>}
    ELSE {<<0, 0>>}

\* A faulty candidate list cut to its first cell in move order (a walk
\* that never tries a second neighbour)
SawCandidatesFirstOnly(n, diag, used, r, c) ==
    LET moves == Deltas(diag)
        all == [i \in 1..Len(moves) |-> <<r + moves[i][1], c + moves[i][2]>>]
        res == SelectSeq(all, LAMBDA cell : /\ 0 <= cell[1] /\ cell[1] < n
                                            /\ 0 <= cell[2] /\ cell[2] < n
                                            /\ cell \notin used)
    IN  SubSeq(res, 1, Min(1, Len(res)))

\* A faulty candidate list that keeps the cells already on the path (the
\* `(rr, cc) not in used` test left out)
SawCandidatesRevisiting(n, diag, used, r, c) ==
    LET moves == Deltas(diag)
        all == [i \in 1..Len(moves) |-> <<r + moves[i][1], c + moves[i][2]>>]
    IN  SelectSeq(all, LAMBDA cell : /\ 0 <= cell[1] /\ cell[1] < n
                                     /\ 0 <= cell[2] /\ cell[2] < n)

\* The in-bounds, unused cells one move from (r, c), in move order: the
\* list `res` of neighbors(r, c) before it is shuffled
SawCandidates(n, diag, used, r, c) ==
    LET moves == Deltas(diag)
        all == [i \in 1..Len(moves) |-> <<r + moves[i][1], c + moves[i][2]>>]
    IN  SelectSeq(all, LAMBDA cell : /\ 0 <= cell[1] /\ cell[1] < n
                                     /\ 0 <= cell[2] /\ cell[2] < n
                                     /\ cell \notin used)

\* onward_degree(cell): the unused in-bounds cells one move from cell
onward_degree(n, diag, used, cell) ==
    Len(SawCandidates(n, diag, used, cell[1], cell[2]))

\* random.shuffle(res); res.sort(key=onward_degree): the candidates come in
\* ascending onward degree, those of equal degree in any order.  Of the
\* candidates `rest` not yet tried, the one the loop tries next is any of
\* least degree (without FullRandom: the first of them in move order, the
\* order an identity shuffle leaves).
NextTried(n, diag, used, res, rest) ==
    LET deg(cell) == onward_degree(n, diag, used, cell)
        least == {cell \in rest : \A o \in rest : deg(cell) <= deg(o)}
        first == res[CHOOSE i \in 1..Len(res) :
                       /\ res[i] \in least
                       /\ \A j \in 1..(i-1) : res[j] \notin least]
    IN  IF FullRandom(n, diag) THEN least ELSE {first}

\* The state of _random_saw_cover_all at start cell `start`: path and
\* used, one frame per active call of dfs() holding the candidates `res`
\* of its loop and those of them not yet tried, and where control stands:
\* "enter" (a call of dfs() begins), "loop" (the head of the innermost
\* `for nb in`), "done" (the outermost call has returned `ret`)
SawStart(start) ==
    [path |-> <<start>>, used |-> {start}, stack |-> <<>>, at |-> "enter",
     ret |-> FALSE]

\* One step of dfs() from state s: the set of states it can lead to over
\* the shuffles.  A call that finds the path complete returns True through
\* every active call; a loop that runs out returns False to the loop that
\* called it, which pops the cell it tried.
SawStep(n, diag, s) ==
    IF s.at = "enter"
    THEN IF Len(s.path) = n * n
         THEN {[s EXCEPT !.at = "done", !.ret = TRUE, !.stack = <<>>]}
         ELSE LET last == s.path[Len(s.path)]
                  res == SawCandidates(n, diag, s.used, last[1], last[2])
              IN  {[s EXCEPT !.stack = Append(@, [res |-> res,
                                                  rest |-> Range(res)]),
                             !.at = "loop"]}
    ELSE IF s.at = "loop"
    THEN LET top == Len(s.stack)
             f == s.stack[top]
             nb == s.path[Len(s.path)]
         IN  IF f.rest # {}
             THEN {[s EXCEPT !.stack[top].rest = @ \ {c},
                             !.used = @ \cup {c},
                             !.path = Append(@, c),
                             !.at = "enter"]
                   : c \in NextTried(n, diag, s.used, f.res, f.rest)}
             ELSE IF top = 1
             THEN {[s EXCEPT !.at = "done", !.ret = FALSE, !.stack = <<>>]}
             ELSE {[s EXCEPT !.stack = SubSeq(@, 1, top - 1),
                             !.path = SubSeq(@, 1, Len(@) - 1),
                             !.used = @ \ {nb}]}
    ELSE {s}

\* 2^j steps of dfs() from each state of S, stopping when all are done
RECURSIVE SawIter(_, _, _, _)
SawIter(n, diag, S, j) ==
    IF \A s \in S : s.at = "done" THEN S
    ELSE IF j = 0 THEN UNION {SawStep(n, diag, s) : s \in S}
    ELSE SawIter(n, diag, SawIter(n, diag, S, j - 1), j - 1)

\* dfs() run to its return from each state of S: 2^j steps, then 2^(j+1),
\* and so on
RECURSIVE SawRun(_, _, _, _)
SawRun(n, diag, S, j) ==
    IF \A s \in S : s.at = "done" THEN S
    ELSE SawRun(n, diag, SawIter(n, diag, S, j), j + 1)

\* _random_saw_cover_all(n, diag): every path it can return, and NoPath if
\* it can return None (`return path if dfs() else None`)
random_saw_cover_all(n, diag) ==
    {IF s.ret THEN s.path ELSE NoPath
     : s \in SawRun(n, diag, {SawStart(start) : start \in StartChoices(n)}, 0)}

\* A faulty _grid_with_clues_from_path that counts steps from 0
\* (`enumerate(path)` for `enumerate(path, start=1)`)
GridWithCluesFromZero(n, path, clue_indices) ==
    [r \in 0..n-1 |-> [c \in 0..n-1 |->
       LET steps == {s \in 0..(Len(path) - 1) :
                       path[s + 1] = <<r, c>> /\ s \in clue_indices}
       IN  IF steps = {} THEN 0 ELSE SetMax(steps)]]

\* _grid_with_clues_from_path(n, path, clue_indices)
grid_with_clues_from_path(n, path, clue_indices) ==
    [r \in 0..n-1 |-> [c \in 0..n-1 |->
       LET steps == {s \in 1..Len(path) : path[s] = <<r, c>> /\ s \in clue_indices}
       IN  IF steps = {} THEN 0 ELSE SetMax(steps)]]

\* A faulty relabelling that numbers the clues from 0 (`i` for `i + 1`)
DisplayMappingFromZero(clue_indices) ==
    [actual \in clue_indices |->
       Cardinality({x \in clue_indices : x < actual})]

\* A faulty relabelling that keeps the true step as the display number
DisplayMappingUnrelabelled(clue_indices) ==
    [actual \in clue_indices |-> actual]

\* mapping = {actual: i + 1 for i, actual in enumerate(sorted(clue_indices))}
DisplayMapping(clue_indices) ==
    [actual \in clue_indices |-> Cardinality({x \in clue_indices : x <= actual})]

\* _create_display_grid(grid, clue_indices) -> (display_grid, mapping)
create_display_grid(grid, clue_indices) ==
    LET n == Cardinality(DOMAIN grid)
        mapping == DisplayMapping(clue_indices)
        display_grid == [r \in 0..n-1 |-> [c \in 0..n-1 |->
                           IF grid[r][c] \in DOMAIN mapping
                           THEN mapping[grid[r][c]] ELSE 0]]
    IN  <<display_grid, mapping>>

\* The set a slice extras[:m] of the shuffled extras = list(range(2, k))
\* can hold, for m >= 0
ExtrasPrefixes(n, diag, k, m) ==
    LET size == Min(m, k - 2)
    IN  IF FullRandom(n, diag)
        THEN {S \in SUBSET (2..(k-1)) : Cardinality(S) = size}
        ELSE {(2 + s)..(1 + s + size) : s \in 0..MaxShift}

\* more.pop() of the shuffled list `more`: any element still in it
\* (without FullRandom: the largest, the last of the unshuffled list)
PopChoices(n, diag, more) ==
    IF FullRandom(n, diag) THEN more ELSE {SetMax(more)}

(***************************************************************************)
(* Solver  (src/src/core/solver.py)                                        *)
(***************************************************************************)

\* list.sort(key=...) on <<key, value>> pairs: stable, ascending by key
RECURSIVE StableSortByKey(_)
StableSortByKey(pairs) ==
    IF pairs = <<>> THEN <<>>
    ELSE LET i == CHOOSE a \in 1..Len(pairs) :
                    /\ \A b \in 1..Len(pairs) : pairs[a][1] <= pairs[b][1]
                    /\ \A b \in 1..(a-1) : pairs[b][1] > pairs[a][1]
         IN  <<pairs[i]>> \o StableSortByKey(SubSeq(pairs, 1, i - 1)
                                               \o SubSeq(pairs, i + 1, Len(pairs)))

\* _ordered_neighbors(board, cell, used, diag)
ordered_neighbors(board, cell, used, diag) ==
    LET opts == SelectSeq(neighbors(board, cell[1], cell[2], diag),
                          LAMBDA nb : nb \notin used)
        key(nb) == Len(SelectSeq(neighbors(board, nb[1], nb[2], diag),
                                 LAMBDA y : y \notin used))
        sorted == StableSortByKey([i \in 1..Len(opts) |-> <<key(opts[i]), opts[i]>>])
    IN  [i \in 1..Len(sorted) |-> sorted[i][2]]

\* starts = [giv[1]] if 1 in giv else [(r, c) for r in range(n) for c in range(n)]
SearchStarts(board, giv) ==
    LET n == BoardN(board)
    IN  IF 1 \in DOMAIN giv THEN <<giv[1]>>
        ELSE [i \in 1..(n * n) |-> <<(i - 1) \div n, (i - 1) % n>>]

\* A faulty candidate list that steps to a due clue wherever it lies (the
\* `target in board.neighbors(...)` test left out)
SearchCandidatesAnywhere(board, diag, giv, step, st) ==
    LET last == st.path[Len(st.path)]
        target == GetCoord(giv, step)
    IN  IF target # NoCoord
        THEN IF target \notin st.used THEN <<target>> ELSE <<>>
        ELSE ordered_neighbors(board, last, st.used, diag)

\* The candidate list of one recursive step of either search
SearchCandidates(board, diag, giv, step, st) ==
    LET last == st.path[Len(st.path)]
        target == GetCoord(giv, step)
    IN  IF target # NoCoord
        THEN IF target \notin st.used
                  /\ target \in Range(neighbors(board, last[1], last[2], diag))
             THEN <<target>> ELSE <<>>
        ELSE ordered_neighbors(board, last, st.used, diag)

\* The `continue` tests of the candidate loop: the cell is used, or shows a
\* clue whose step (through display_to_step when truthy, None passing) is
\* not the current one
SkipCell(board, cell, step, st) ==
    LET display_val == board.grid[cell[1]][cell[2]]
    IN  \/ cell \in st.used
        \/ /\ display_val # 0
           /\ IF DOMAIN board.display_to_step # {}
              THEN LET actual_step == Get(board.display_to_step, display_val)
                   IN  actual_step # None /\ actual_step # step
              ELSE display_val # step

\* used.add(cell); path.append(cell)
Push(m, cell) ==
    [m EXCEPT !.used = @ \cup {cell}, !.path = Append(@, cell)]

\* A faulty backtrack that leaves the cell in used (`used.remove(cell)`
\* left out)
PopPathOnly(m, cell) ==
    [m EXCEPT !.path = SubSeq(@, 1, Len(@) - 1)]

\* path.pop(); used.remove(cell)
Pop(m, cell) ==
    [m EXCEPT !.used = @ \ {cell}, !.path = SubSeq(@, 1, Len(@) - 1)]

\* used.clear(); path.clear(); used.add(s); path.append(s)
StartFrom(m, s) == [m EXCEPT !.used = {s}, !.path = <<s>>]

\* What a search is called with and computes before its loop over starts;
\* the time limit enters as the deadline it sets.  counting tells
\* count_solutions from solve_backtracking.
SearchContext(board, diag, limit, deadline, counting) ==
    LET giv == givens(board)
    IN  [board |-> board, diag |-> diag, giv |-> giv,
         starts |-> SearchStarts(board, giv), limit |-> limit,
         deadline |-> deadline, counting |-> counting]

\* The state of a search before `for s in starts`: the closure variables
\* used, path and count; ticks, the calls of dfs made so far (each reads
\* the clock once); one frame per active call of dfs holding its step, its
\* candidate list and the index i its loop is at; si, the index the loop
\* over starts is at; and where control stands: "start" (the head of
\* `for s in starts`), "enter" (a call dfs(step) begins), "loop" (the head
\* of the innermost candidate loop), "done" (the search has returned; ret
\* tells whether the last call of dfs returned True).
SearchBegin ==
    [used |-> {}, path |-> <<>>, count |-> 0, ticks |-> 0, stack |-> <<>>,
     si |-> 1, step |-> 0, at |-> "start", ret |-> FALSE]

\* A call of dfs returns True: so does every active call in turn
\* (`if dfs(step + 1): return True`), leaving path and used as they are,
\* and the loop over starts ends (`return path`, `break`)
ReturnTrue(cx, m) == [m EXCEPT !.at = "done", !.ret = TRUE]

\* A call of dfs returns False: the candidate loop that called it pops
\* the cell and goes on, or, from dfs(2), the loop over starts goes on
\* (count_solutions: unless `count >= limit`)
ReturnFalse(cx, m) ==
    IF m.stack # <<>>
    THEN LET top == Len(m.stack)
             cell == m.stack[top].cands[m.stack[top].i]
         IN  [Pop(m, cell) EXCEPT !.stack[top].i = @ + 1, !.at = "loop"]
    ELSE IF cx.counting /\ m.count >= cx.limit
    THEN [m EXCEPT !.at = "done"]
    ELSE [m EXCEPT !.si = @ + 1, !.at = "start"]

\* dfs goes on to its candidate loop
Descend(cx, m) ==
    [m EXCEPT !.stack = Append(@, [step |-> m.step,
                                   cands |-> SearchCandidates(cx.board, cx.diag,
                                                              cx.giv, m.step, m),
                                   i |-> 1]),
              !.at = "loop"]

\* A faulty head of solve_backtracking.dfs that answers True when the
\* deadline has passed (as count_solutions.dfs does)
SolveEnterExpiryTrue(cx, m) ==
    LET t == [m EXCEPT !.ticks = @ + 1]
    IN  IF Expired(t.ticks, cx.deadline) THEN ReturnTrue(cx, t)
        ELSE IF t.step > cx.board.k THEN ReturnTrue(cx, t)
        ELSE Descend(cx, t)

\* The head of solve_backtracking.dfs(step): the deadline test, then the
\* success test
SolveEnter(cx, m) ==
    LET t == [m EXCEPT !.ticks = @ + 1]
    IN  IF Expired(t.ticks, cx.deadline) THEN ReturnFalse(cx, t)
        ELSE IF t.step > cx.board.k THEN ReturnTrue(cx, t)
        ELSE Descend(cx, t)

\* A faulty head of count_solutions.dfs that ends the search at the first
\* solution (`return True` as in solve_backtracking, for
\* `return count >= limit`)
CountEnterStopsAtFirst(cx, m) ==
    LET t == [m EXCEPT !.ticks = @ + 1]
        c == [t EXCEPT !.count = @ + 1]
    IN  IF Expired(t.ticks, cx.deadline) THEN ReturnTrue(cx, t)
        ELSE IF t.step > cx.board.k THEN ReturnTrue(cx, c)
        ELSE Descend(cx, t)

\* The head of count_solutions.dfs(step): the deadline test, then the
\* solution count
CountEnter(cx, m) ==
    LET t == [m EXCEPT !.ticks = @ + 1]
        c == [t EXCEPT !.count = @ + 1]
    IN  IF Expired(t.ticks, cx.deadline) THEN ReturnTrue(cx, t)
        ELSE IF t.step > cx.board.k
        THEN IF c.count >= cx.limit THEN ReturnTrue(cx, c)
             ELSE ReturnFalse(cx, c)
        ELSE Descend(cx, t)

\* A faulty candidate loop that gives up after its first candidate (the
\* final `return False` indented into the loop body)
SearchLoopFirstOnly(cx, m) ==
    LET top == Len(m.stack)
        f == m.stack[top]
    IN  IF f.i > Len(f.cands) \/ f.i > 1
        THEN ReturnFalse(cx, [m EXCEPT !.stack = SubSeq(@, 1, top - 1)])
        ELSE IF SkipCell(cx.board, f.cands[f.i], f.step, m)
        THEN [m EXCEPT !.stack[top].i = @ + 1]
        ELSE [Push(m, f.cands[f.i]) EXCEPT !.at = "enter", !.step = f.step + 1]

\* One pass of `for cell in cands` (the same in both searches)
SearchLoop(cx, m) ==
    LET top == Len(m.stack)
        f == m.stack[top]
    IN  IF f.i > Len(f.cands)
        THEN ReturnFalse(cx, [m EXCEPT !.stack = SubSeq(@, 1, top - 1)])
        ELSE IF SkipCell(cx.board, f.cands[f.i], f.step, m)
        THEN [m EXCEPT !.stack[top].i = @ + 1]
        ELSE [Push(m, f.cands[f.i]) EXCEPT !.at = "enter", !.step = f.step + 1]

\* One pass of `for s in starts` up to its call dfs(2); the loop running
\* out ends the search
SearchStart(cx, m) ==
    IF m.si > Len(cx.starts) THEN [m EXCEPT !.at = "done"]
    ELSE [StartFrom(m, cx.starts[m.si]) EXCEPT !.at = "enter", !.step = 2]

\* One step of a search
SearchStep(cx, m) ==
    IF m.at = "start" THEN SearchStart(cx, m)
    ELSE IF m.at = "enter"
    THEN IF cx.counting THEN CountEnter(cx, m) ELSE SolveEnter(cx, m)
    ELSE IF m.at = "loop" THEN SearchLoop(cx, m)
    ELSE m

\* 2^j steps of a search from state m, stopping when it is done
RECURSIVE SearchIter(_, _, _)
SearchIter(cx, m, j) ==
    IF m.at = "done" THEN m
    ELSE IF j = 0 THEN SearchStep(cx, m)
    ELSE SearchIter(cx, SearchIter(cx, m, j - 1), j - 1)

\* A search run to its return from state m: 2^j steps, then 2^(j+1), and
\* so on
RECURSIVE SearchRun(_, _, _)
SearchRun(cx, m, j) ==
    IF m.at = "done" THEN m
    ELSE SearchRun(cx, SearchIter(cx, m, j), j + 1)

\* The state solve_backtracking ends in: whether a dfs(2) returned True,
\* the path, and the clock reads made
SolveRun(board, diag, deadline) ==
    SearchRun(SearchContext(board, diag, 0, deadline, FALSE), SearchBegin, 0)

\* solve_backtracking(board, diag, time_limit) -> path, or NoPath for None
solve_backtracking(board, diag, deadline) ==
    LET m == SolveRun(board, diag, deadline)
    IN  IF m.ret THEN m.path ELSE NoPath

\* The state count_solutions ends in: its count, and the clock reads made
CountRun(board, diag, limit, deadline) ==
    SearchRun(SearchContext(board, diag, limit, deadline, TRUE), SearchBegin, 0)

\* count_solutions(board, diag, limit, time_limit) -> count
count_solutions(board, diag, limit, deadline) ==
    CountRun(board, diag, limit, deadline).count

(***************************************************************************)
(* Puzzle generation and its callers                                       *)
(* (src/src/core/generator.py, src/src/main.py, src/src/zip_llm_tests.py,  *)
(*  src/src/UI/GUI.py)                                                     *)
(***************************************************************************)

\* Attempts of one generate call the model follows; past it the run is
\* left unexplored (MAX_GEN_ATTEMPTS is the source's own limit).
MaxAttemptsExplored == 1

\* The callers that set config.CLUE_START before generating
Callers == {"main", "tests"}

\* main: config.CLUE_START = max(6, n // 2);
\* tests: cfg.CLUE_START, cfg.CLUE_MAX = cfg.get_clue_bounds(board_size)
CallerClueStart(caller, n) ==
    IF caller = "main" THEN Max(6, n \div 2) ELSE get_clue_bounds(n)[1]

\* inverse_mapping = {v: k for k, v in mapping.items()}; of two keys with
\* the same value the later (here: larger) key stays
Inverse(mapping) ==
    [v \in {mapping[key] : key \in DOMAIN mapping} |->
       SetMax({key \in DOMAIN mapping : mapping[key] = v})]

VARIABLES
    caller,        \* who calls generate_unique_puzzle
    n,             \* its argument n
    diag,          \* its argument diag
    CLUE_START,    \* config.CLUE_START as the caller set it
    pc,            \* where the call, and then its caller, stands
    attempts,      \* attempts
    path,          \* path: the witness of the current attempt, or NoPath
    clue_set,      \* clue_set
    more,          \* more: the positions not yet clues (a shuffled list in
                   \* the source; the order is drawn when an element is popped)
    count,         \* count of the last count_solutions call, -1 before it
    expired,       \* whether that call's deadline passed while it ran
    display_grid,  \* returned display_grid
    mapping,       \* returned mapping
    board,         \* the Board the caller builds from the results
    solver_path,   \* solve_backtracking's result on that Board
    arg_board,     \* validate_path's argument board
    arg_path,      \* validate_path's argument path
    arg_diag,      \* validate_path's argument diag
    result,        \* validate_path's return value, <<>> before the call
    earlier,       \* the return value of the call before that one, <<>> if
                   \* there was none
    in_board,      \* a search's argument board
    in_diag,       \* its argument diag
    in_limit,      \* count_solutions's argument limit
    in_deadline,   \* the deadline its argument time_limit sets
    called,        \* the search that was called, "none" before the call
    ret_count,     \* count_solutions's return value, -1 before the call
    ret_path,      \* solve_backtracking's return value, NoPath for None
    timed_out,     \* whether the deadline passed while the search ran
    searching,     \* the search followed step by step, "none" if none is
    dfs,           \* its closure variables and call stack at this step
    entered,       \* the calls of its dfs made so far
    nb_board,      \* the Board a neighbors call is made on
    nb_cell,       \* its arguments r, c
    nb_diag,       \* its argument diag, "None" when left out
    nb_out,        \* <<its return value>>, <<>> before the call
    game_mode,     \* Game.game_mode, "none" when no Game is made
    game_board,    \* Game.board
    game_diag,     \* Game.diag
    game_path,     \* Game.path
    solution,      \* Game.solution, NoPath for None
    is_won,        \* Game.is_won
    dragging,      \* Game.dragging
    hint_segment,  \* Game.hint_segment, <<>> for None
    victory,       \* "no", "transition" (in_victory_transition) or
                   \* "showing" (showing_victory)
    victory_transition_alpha,  \* Game.victory_transition_alpha
    llm_pc,        \* where the thread running solve_with_llm stands
    iteration,     \* its local iteration
    stuck_count,   \* its local stuck_count
    llm_cell       \* its local cell

\* The variables of a generate call and its caller
genvars == <<caller, n, diag, CLUE_START, pc, attempts, path, clue_set, more,
             count, expired, display_grid, mapping, board, solver_path>>

\* The variables of a validate_path call
valvars == <<arg_board, arg_path, arg_diag, result, earlier>>

\* The variables of a call of count_solutions or solve_backtracking
srchvars == <<in_board, in_diag, in_limit, in_deadline, called, ret_count,
              ret_path, timed_out>>

\* The variables of a search followed step by step
dfsvars == <<searching, dfs, entered>>

\* The variables of a Board.neighbors call
nbvars == <<nb_board, nb_cell, nb_diag, nb_out>>

\* The fields of a Game that its event handlers read and write
guivars == <<game_mode, game_board, game_diag, game_path, solution, is_won,
             dragging, hint_segment, victory, victory_transition_alpha>>

\* The locals of the thread running Game.solve_with_llm
llmvars == <<llm_pc, iteration, stuck_count, llm_cell>>

\* The variables of a Game session
gamevars == <<guivars, llmvars>>

vars == <<genvars, valvars, srchvars, dfsvars, nbvars, gamevars>>

\* No validate_path call is under way
NoValidation ==
    /\ arg_board = <<>>
    /\ arg_path = <<>>
    /\ arg_diag = FALSE
    /\ result = <<>>
    /\ earlier = <<>>

\* No search call is under way
NoSearch ==
    /\ in_board = <<>>
    /\ in_diag = FALSE
    /\ in_limit = 0
    /\ in_deadline = NoDeadline
    /\ called = "none"
    /\ ret_count = -1
    /\ ret_path = NoPath
    /\ timed_out = FALSE

\* No search is followed step by step
NoDfs ==
    /\ searching = "none"
    /\ dfs = <<>>
    /\ entered = 0

\* No neighbors call is under way
NoNeighbors ==
    /\ nb_board = <<>>
    /\ nb_cell = NoCoord
    /\ nb_diag = "None"
    /\ nb_out = <<>>

\* No Game is made
NoGame ==
    /\ game_mode = "none"
    /\ game_board = <<>>
    /\ game_diag = FALSE
    /\ game_path = <<>>
    /\ solution = NoPath
    /\ is_won = FALSE
    /\ dragging = FALSE
    /\ hint_segment = <<>>
    /\ victory = "no"
    /\ victory_transition_alpha = 0
    /\ llm_pc = "off"
    /\ iteration = 0
    /\ stuck_count = 0
    /\ llm_cell = NoCoord

\* No generate call is under way
NoGeneration ==
    /\ caller = "none"
    /\ n = 0
    /\ diag = FALSE
    /\ CLUE_START = 0
    /\ pc = "idle"
    /\ attempts = 0
    /\ path = <<>>
    /\ clue_set = {}
    /\ more = {}
    /\ count = -1
    /\ expired = FALSE
    /\ display_grid = <<>>
    /\ mapping = <<>>
    /\ board = <<>>
    /\ solver_path = <<>>

\* k = n * n
K == n * n

\* The state at the call of generate_unique_puzzle(n, diag): the caller has
\* set config.CLUE_START, and `if config.FAST_MODE and
\* n >= config.FAST_MODE_THRESHOLD` has chosen the generator.
Init ==
    /\ caller \in Callers
    /\ n \in Sizes
    /\ diag \in BOOLEAN
    /\ CLUE_START = CallerClueStart(caller, n)
    /\ pc = IF FAST_MODE /\ n >= FAST_MODE_THRESHOLD THEN "fast" ELSE "attempt"
    /\ attempts = 0
    /\ path = NoPath
    /\ clue_set = {}
    /\ more = {}
    /\ count = -1
    /\ expired = FALSE
    /\ display_grid = <<>>
    /\ mapping = NoDict
    /\ board = <<>>
    /\ solver_path = NoPath
    /\ NoValidation
    /\ NoSearch
    /\ NoDfs
    /\ NoNeighbors
    /\ NoGame

\* A faulty acceptance test that takes any board with a solution
\* (`count >= 1` for `count == 1`)
AcceptsAnySolution(c) == c >= 1

\* A faulty acceptance test that also takes a count cut short at 0
\* (`count <= 1` for `count == 1`)
AcceptsAtMostOne(c) == c <= 1

\* `if count == 1` of the inner loop
Accepts(c) == c = 1

\* `return display_grid, path, mapping` for the witness p and the clues cs
Return(p, cs) ==
    LET grid == grid_with_clues_from_path(n, p, cs)
        made == create_display_grid(grid, cs)
    IN  /\ display_grid' = made[1]
        /\ mapping' = made[2]
        /\ path' = p
        /\ clue_set' = cs
        /\ pc' = "returned"

\* One pass of `while attempts < config.MAX_GEN_ATTEMPTS` in
\* _generate_puzzle_fast, or the RuntimeError after the loop; the call is
\* followed for `followed` attempts
FastAttemptOf(followed) ==
    /\ pc = "fast"
    /\ attempts < followed
    /\ IF attempts < MAX_GEN_ATTEMPTS
       THEN /\ attempts' = attempts + 1
            /\ \E p \in random_saw_cover_all(n, diag) :
                 IF p = NoPath
                 THEN UNCHANGED <<pc, path, clue_set, display_grid, mapping>>
                 ELSE \E extras \in ExtrasPrefixes(n, diag, K, get_clue_bounds(n)[1] - 2) :
                        Return(p, {1, K} \cup extras)
       ELSE /\ pc' = "raised"
            /\ UNCHANGED <<attempts, path, clue_set, display_grid, mapping>>
    /\ UNCHANGED <<caller, n, diag, CLUE_START, more, count, expired, board,
                   solver_path>>
    /\ UNCHANGED <<valvars, srchvars, dfsvars, nbvars, gamevars>>

FastAttempt == FastAttemptOf(MaxAttemptsExplored)

\* A faulty outer loop that never counts its attempts (`attempts += 1`
\* left out)
AttemptUncounted(followed) ==
    /\ pc = "attempt"
    /\ attempts < followed
    /\ IF attempts < MAX_GEN_ATTEMPTS
       THEN /\ attempts' = attempts
            /\ \E p \in random_saw_cover_all(n, diag) :
                 IF p = NoPath
                 THEN UNCHANGED <<pc, path, clue_set, more>>
                 ELSE \E extras \in ExtrasPrefixes(n, diag, K, CLUE_START - 2) :
                        /\ path' = p
                        /\ clue_set' = {1, K} \cup extras
                        /\ more' = (2..(K - 1)) \ clue_set'
                        /\ pc' = "count"
       ELSE /\ pc' = "raised"
            /\ UNCHANGED <<attempts, path, clue_set, more>>
    /\ UNCHANGED <<caller, n, diag, CLUE_START, count, expired, display_grid,
                   mapping, board, solver_path>>
    /\ UNCHANGED <<valvars, srchvars, dfsvars, nbvars, gamevars>>

\* One pass of `while attempts < config.MAX_GEN_ATTEMPTS` in
\* generate_unique_puzzle up to the inner `while True`, or the RuntimeError
\* after the loop; the call is followed for `followed` attempts
AttemptOf(followed) ==
    /\ pc = "attempt"
    /\ attempts < followed
    /\ IF attempts < MAX_GEN_ATTEMPTS
       THEN /\ attempts' = attempts + 1
            /\ \E p \in random_saw_cover_all(n, diag) :
                 IF p = NoPath
                 THEN UNCHANGED <<pc, path, clue_set, more>>
                 ELSE \E extras \in ExtrasPrefixes(n, diag, K, CLUE_START - 2) :
                        /\ path' = p
                        /\ clue_set' = {1, K} \cup extras
                        /\ more' = (2..(K - 1)) \ clue_set'
                        /\ pc' = "count"
       ELSE /\ pc' = "raised"
            /\ UNCHANGED <<attempts, path, clue_set, more>>
    /\ UNCHANGED <<caller, n, diag, CLUE_START, count, expired, display_grid,
                   mapping, board, solver_path>>
    /\ UNCHANGED <<valvars, srchvars, dfsvars, nbvars, gamevars>>

Attempt == AttemptOf(MaxAttemptsExplored)

\* A faulty inner loop that adds the next position to the clue set before
\* it tests the count (`if count == 1` moved below `clue_set.add`)
CountRoundAddsFirst ==
    /\ pc = "count"
    /\ LET grid == grid_with_clues_from_path(n, path, clue_set)
           b == Board(grid, K, diag, NoDict, NoDict)
           max_clues == get_clue_bounds(n)[2]
       IN  \E deadline \in Deadlines(K) :
             LET run == CountRun(b, diag, 2, deadline)
             IN  /\ count' = run.count
                 /\ expired' = Expired(run.ticks, deadline)
                 /\ IF Cardinality(clue_set) >= max_clues \/ more = {}
                    THEN /\ pc' = "attempt"
                         /\ path' = NoPath
                         /\ clue_set' = {}
                         /\ more' = {}
                         /\ UNCHANGED <<display_grid, mapping>>
                    ELSE \E idx \in PopChoices(n, diag, more) :
                           IF Accepts(run.count)
                           THEN /\ Return(path, clue_set \cup {idx})
                                /\ more' = more \ {idx}
                           ELSE /\ clue_set' = clue_set \cup {idx}
                                /\ more' = more \ {idx}
                                /\ UNCHANGED <<pc, path, display_grid, mapping>>
    /\ UNCHANGED <<caller, n, diag, CLUE_START, attempts, board, solver_path>>
    /\ UNCHANGED <<valvars, srchvars, dfsvars, nbvars, gamevars>>

\* One pass of the inner `while True`: count the solutions of the current
\* clue set; return on 1, give the witness up when the clue budget or the
\* unused positions are exhausted, else add one position.  A witness given
\* up leaves its locals behind as they are first overwritten; the model
\* clears them.
CountRound ==
    /\ pc = "count"
    /\ LET grid == grid_with_clues_from_path(n, path, clue_set)
           b == Board(grid, K, diag, NoDict, NoDict)
           max_clues == get_clue_bounds(n)[2]
       IN  \E deadline \in Deadlines(K) :
             LET run == CountRun(b, diag, 2, deadline)
             IN  /\ count' = run.count
                 /\ expired' = Expired(run.ticks, deadline)
                 /\ IF Accepts(run.count)
                    THEN /\ Return(path, clue_set)
                         /\ UNCHANGED more
                    ELSE IF Cardinality(clue_set) >= max_clues \/ more = {}
                    THEN /\ pc' = "attempt"
                         /\ path' = NoPath
                         /\ clue_set' = {}
                         /\ more' = {}
                         /\ UNCHANGED <<display_grid, mapping>>
                    ELSE \E idx \in PopChoices(n, diag, more) :
                           /\ clue_set' = clue_set \cup {idx}
                           /\ more' = more \ {idx}
                           /\ UNCHANGED <<pc, path, display_grid, mapping>>
    /\ UNCHANGED <<caller, n, diag, CLUE_START, attempts, board, solver_path>>
    /\ UNCHANGED <<valvars, srchvars, dfsvars, nbvars, gamevars>>

\* The caller builds its Board from the results (main.py, zip_llm_tests.py,
\* validate_test.py): display_to_step=mapping, step_to_display=its inverse
CallerBuildsBoard ==
    /\ pc = "returned"
    /\ board' = Board(display_grid, K, diag, mapping, Inverse(mapping))
    /\ pc' = "playing"
    /\ UNCHANGED <<caller, n, diag, CLUE_START, attempts, path, clue_set, more,
                   count, expired, display_grid, mapping, solver_path>>
    /\ UNCHANGED <<valvars, srchvars, dfsvars, nbvars, gamevars>>

\* Game.solve_with_llm / Game.ensure_solution:
\* solve_backtracking(self.board, self.diag, time_limit)
Solve ==
    /\ pc = "playing"
    /\ \E deadline \in Deadlines(K) :
         solver_path' = solve_backtracking(board, board.diag, deadline)
    /\ pc' = "solved"
    /\ UNCHANGED <<caller, n, diag, CLUE_START, attempts, path, clue_set, more,
                   count, expired, display_grid, mapping, board>>
    /\ UNCHANGED <<valvars, srchvars, dfsvars, nbvars, gamevars>>

Next ==
    \/ FastAttempt
    \/ Attempt
    \/ CountRound
    \/ CallerBuildsBoard
    \/ Solve

Spec == Init /\ [][Next]_vars

(***************************************************************************)
(* A generate call followed to its end                                     *)
(***************************************************************************)

\* The board sizes of those calls: one below FAST_MODE_THRESHOLD, one at it
TerminationSizes == {3, 10}

\* The state at the call of generate_unique_puzzle(n, diag), for the calls
\* whose shuffles the model fixes, so that each can be followed through all
\* of its MAX_GEN_ATTEMPTS attempts
InitTerminate ==
    /\ caller \in Callers
    /\ n \in TerminationSizes
    /\ diag \in BOOLEAN
    /\ ~FullRandom(n, diag)
    /\ CLUE_START = CallerClueStart(caller, n)
    /\ pc = IF FAST_MODE /\ n >= FAST_MODE_THRESHOLD THEN "fast" ELSE "attempt"
    /\ attempts = 0
    /\ path = NoPath
    /\ clue_set = {}
    /\ more = {}
    /\ count = -1
    /\ expired = FALSE
    /\ display_grid = <<>>
    /\ mapping = NoDict
    /\ board = <<>>
    /\ solver_path = NoPath
    /\ NoValidation
    /\ NoSearch
    /\ NoDfs
    /\ NoNeighbors
    /\ NoGame

\* Every pass of the loops, up to the return or the RuntimeError
FastAttemptToEnd == FastAttemptOf(MAX_GEN_ATTEMPTS + 1)

AttemptToEnd == AttemptOf(MAX_GEN_ATTEMPTS + 1)

NextTerminate ==
    \/ FastAttemptToEnd
    \/ AttemptToEnd
    \/ CountRound

\* generate_unique_puzzle has returned a puzzle or raised RuntimeError
GenerationEnded == pc \in {"returned", "raised"}

\* The call runs in one thread, which takes its next step whenever it has
\* one: WF_vars(NextTerminate).  A step is possible exactly until the call
\* has ended (each loop pass has a successor for every outcome of the
\* shuffles and the clock), so the condition is written with
\* GenerationEnded in the place of ~ENABLED <<NextTerminate>>_vars.
SpecTerminate ==
    /\ InitTerminate
    /\ [][NextTerminate]_vars
    /\ ([]<>GenerationEnded \/ []<><<NextTerminate>>_vars)

(***************************************************************************)
(* validate_path on arbitrary boards and paths                             *)
(***************************************************************************)

\* The board sizes validate_path is called on
ValidatorSizes == {2}

\* The largest clue number on those boards
MaxClue == 4

\* The grids of size m: each cell empty or a clue 1..MaxClue, no clue twice
ClueGrids(m) ==
    {g \in [0..m-1 -> [0..m-1 -> 0..MaxClue]] :
       \A a, b \in Cells(m) :
          a # b /\ g[a[1]][a[2]] > 0 => g[a[1]][a[2]] # g[b[1]][b[2]]}

\* The cells a path is made of: those of the board, the cell right of the
\* first row and the cell above the first column
PathCells(m) == Cells(m) \cup {<<0, m>>, <<-1, 0>>}

\* The orders in which a path from (0, 0) can visit every cell once,
\* adjacent or not
BasePaths(m) ==
    {p \in [1..m*m -> Cells(m)] :
       /\ p[1] = <<0, 0>>
       /\ \A i, j \in 1..m*m : i # j => p[i] # p[j]}

\* The paths validate_path is called with: a base path; one with a cell
\* replaced (by a cell visited already, another start, or a cell outside);
\* one of these cut short by a cell; a base path with a cell appended; the
\* empty path and the paths of one cell
PathInputs(m) ==
    LET replaced == {[b EXCEPT ![i] = c] :
                       b \in BasePaths(m), i \in 1..m*m, c \in PathCells(m)}
        short == {SubSeq(p, 1, m*m - 1) : p \in replaced}
        long == {Append(b, c) : b \in BasePaths(m), c \in PathCells(m)}
        least == {<<>>} \cup {<<c>> : c \in PathCells(m)}
    IN  replaced \cup short \cup long \cup least

\* A caller is about to call validate_path(board, path, diag)
InitValidate ==
    /\ NoGeneration
    /\ arg_diag \in BOOLEAN
    /\ \E m \in ValidatorSizes :
         /\ arg_board \in {Board(g, m * m, arg_diag, NoDict, NoDict) :
                             g \in ClueGrids(m)}
         /\ arg_path \in PathInputs(m)
    /\ result = <<>>
    /\ earlier = <<>>
    /\ NoSearch
    /\ NoDfs
    /\ NoNeighbors
    /\ NoGame

\* The calls of validate_path on the same arguments that are followed
MaxCalls == 2

\* The number of calls made
Calls == IF result = <<>> THEN 0 ELSE IF earlier = <<>> THEN 1 ELSE 2

\* A faulty validate_path that takes the cells off the caller's list as
\* it checks them (`cell = path.pop(0)` for the loop)
ValidateConsumingPath ==
    /\ pc = "idle"
    /\ Calls < MaxCalls
    /\ result' = validate_path(arg_board, arg_path, arg_diag)
    /\ earlier' = result
    /\ arg_path' = <<>>
    /\ UNCHANGED <<arg_board, arg_diag>>
    /\ UNCHANGED <<genvars, srchvars, dfsvars, nbvars, gamevars>>

\* ok, reason = validate_path(board, path, diag): the function assigns to
\* locals only (diag, seen, clue_positions, sorted_clues, ...), all of
\* them made anew by each call, so a call leaves behind its result alone
Validate ==
    /\ pc = "idle"
    /\ Calls < MaxCalls
    /\ result' = validate_path(arg_board, arg_path, arg_diag)
    /\ earlier' = result
    /\ UNCHANGED <<arg_board, arg_path, arg_diag>>
    /\ UNCHANGED <<genvars, srchvars, dfsvars, nbvars, gamevars>>

NextValidate == Validate

SpecValidate == InitValidate /\ [][NextValidate]_vars

(***************************************************************************)
(* count_solutions and solve_backtracking on arbitrary boards              *)
(***************************************************************************)

\* The board sizes the searches are called on
SearchSizes == {2, 3}

\* The most clue cells of those boards
MaxGivens == 2

\* The largest limit count_solutions is called with
MaxLimit == 3

\* The steps that are clues on those boards: the first, the middle and the
\* last of the k
GivenSteps(k) == {1, (k + 1) \div 2, k}

\* The grids of size m the generator's Board(grid=grid, k=k, diag=diag)
\* form: each cell empty or the true step of a clue, no step twice, at most
\* MaxGivens clues; no mapping, so a cell's value is its step
SearchGrids(m) ==
    LET placements == {f \in [Cells(m) -> {0} \cup GivenSteps(m * m)] :
                         /\ Cardinality({c \in Cells(m) : f[c] > 0}) <= MaxGivens
                         /\ \A a, b \in Cells(m) :
                               a # b /\ f[a] > 0 => f[a] # f[b]}
    IN  {[r \in 0..m-1 |-> [c \in 0..m-1 |-> f[<<r, c>>]]] : f \in placements}

\* The deadlines of those calls: none, or at any of the first k + MaxSlack
\* clock reads
SearchDeadlines(k) == {NoDeadline} \cup 1..(k + MaxSlack)

\* A caller is about to call count_solutions(board, diag, limit,
\* time_limit) or solve_backtracking(board, diag, time_limit)
InitSearch ==
    /\ NoGeneration
    /\ NoValidation
    /\ in_diag \in BOOLEAN
    /\ \E m \in SearchSizes :
         /\ in_board \in {Board(g, m * m, in_diag, NoDict, NoDict) :
                            g \in SearchGrids(m)}
         /\ in_deadline \in SearchDeadlines(m * m)
    /\ in_limit = 0
    /\ called = "none"
    /\ ret_count = -1
    /\ ret_path = NoPath
    /\ timed_out = FALSE
    /\ NoDfs
    /\ NoNeighbors
    /\ NoGame

\* count = count_solutions(board, diag, limit, time_limit)
CallCountSolutions ==
    /\ pc = "idle"
    /\ called = "none"
    /\ \E limit \in 0..MaxLimit :
         LET run == CountRun(in_board, in_diag, limit, in_deadline)
         IN  /\ in_limit' = limit
             /\ ret_count' = run.count
             /\ timed_out' = Expired(run.ticks, in_deadline)
    /\ called' = "count_solutions"
    /\ UNCHANGED <<in_board, in_diag, in_deadline, ret_path>>
    /\ UNCHANGED <<genvars, valvars, dfsvars, nbvars, gamevars>>

\* path = solve_backtracking(board, diag, time_limit)
CallSolveBacktracking ==
    /\ pc = "idle"
    /\ called = "none"
    /\ LET run == SolveRun(in_board, in_diag, in_deadline)
       IN  /\ ret_path' = IF run.ret THEN run.path ELSE NoPath
           /\ timed_out' = Expired(run.ticks, in_deadline)
    /\ called' = "solve_backtracking"
    /\ UNCHANGED <<in_board, in_diag, in_limit, in_deadline, ret_count>>
    /\ UNCHANGED <<genvars, valvars, dfsvars, nbvars, gamevars>>

NextSearch == CallCountSolutions \/ CallSolveBacktracking

SpecSearch == InitSearch /\ [][NextSearch]_vars

(***************************************************************************)
(* The three depth-first searches, step by step                            *)
(***************************************************************************)

\* The board sizes the searches are followed on
DfsSizes == {2, 3}

\* The grids of those searches: every grid of SearchGrids on the smallest
\* size, those with clue 1 in the corner on the others
DfsGrids(m) == {g \in SearchGrids(m) : m = 2 \/ g[0][0] = 1}

\* _random_saw_cover_all(n, diag) begins: start = random.choice(cells),
\* path, used = [start], {start}.  The function takes no time limit; the
\* deadline is that of its caller's budget, counted in calls of dfs like
\* the deadlines of the other two searches.
InitSaw ==
    /\ searching = "_random_saw_cover_all"
    /\ n \in DfsSizes
    /\ diag \in BOOLEAN
    /\ dfs \in {SawStart(start) : start \in StartChoices(n)}
    /\ in_deadline \in Deadlines(n * n)
    /\ in_board = <<>>
    /\ in_diag = diag
    /\ in_limit = 0

\* solve_backtracking(board, diag, time_limit) or count_solutions(board,
\* diag, limit, time_limit) begins
InitSolveOrCount ==
    /\ searching \in {"solve_backtracking", "count_solutions"}
    /\ n = 0
    /\ diag = FALSE
    /\ in_diag \in BOOLEAN
    /\ \E m \in DfsSizes :
         /\ in_board \in {Board(g, m * m, in_diag, NoDict, NoDict) :
                            g \in DfsGrids(m)}
         /\ in_deadline \in Deadlines(m * m)
    /\ in_limit \in IF searching = "count_solutions" THEN 1..MaxLimit ELSE {0}
    /\ dfs = SearchBegin

InitDfs ==
    /\ InitSaw \/ InitSolveOrCount
    /\ entered = 0
    /\ NoNeighbors
    /\ NoGame
    /\ caller = "none"
    /\ CLUE_START = 0
    /\ pc = "idle"
    /\ attempts = 0
    /\ path = <<>>
    /\ clue_set = {}
    /\ more = {}
    /\ count = -1
    /\ expired = FALSE
    /\ display_grid = <<>>
    /\ mapping = <<>>
    /\ board = <<>>
    /\ solver_path = <<>>
    /\ NoValidation
    /\ called = "none"
    /\ ret_count = -1
    /\ ret_path = NoPath
    /\ timed_out = FALSE

\* What the search followed was called with
DfsContext ==
    SearchContext(in_board, in_diag, in_limit, in_deadline,
                  searching = "count_solutions")

\* One step of _random_saw_cover_all's dfs
StepSaw ==
    /\ searching = "_random_saw_cover_all"
    /\ dfs.at # "done"
    /\ dfs' \in SawStep(n, diag, dfs)
    /\ entered' = IF dfs.at = "enter" THEN entered + 1 ELSE entered
    /\ UNCHANGED searching
    /\ UNCHANGED <<genvars, valvars, srchvars, nbvars, gamevars>>

\* One step of solve_backtracking
StepSolve ==
    /\ searching = "solve_backtracking"
    /\ dfs.at # "done"
    /\ dfs' = SearchStep(DfsContext, dfs)
    /\ entered' = dfs'.ticks
    /\ UNCHANGED searching
    /\ UNCHANGED <<genvars, valvars, srchvars, nbvars, gamevars>>

\* One step of count_solutions
StepCount ==
    /\ searching = "count_solutions"
    /\ dfs.at # "done"
    /\ dfs' = SearchStep(DfsContext, dfs)
    /\ entered' = dfs'.ticks
    /\ UNCHANGED searching
    /\ UNCHANGED <<genvars, valvars, srchvars, nbvars, gamevars>>

NextDfs == StepSaw \/ StepSolve \/ StepCount

SpecDfs == InitDfs /\ [][NextDfs]_vars

(***************************************************************************)
(* Properties of generated puzzles  (under Spec)                           *)
(***************************************************************************)

\* generate_unique_puzzle has returned (display_grid, path, mapping)
Returned == pc \in {"returned", "playing", "solved"}

\* The call went through _generate_puzzle_fast
FastCall == FAST_MODE /\ n >= FAST_MODE_THRESHOLD

\* The display number the returned grid shows at a cell, 0 for none
DisplayAt(cell) == display_grid[cell[1]][cell[2]]

\* C: the number of clue cells of the returned grid
ClueCount == Cardinality({cell \in Cells(n) : DisplayAt(cell) > 0})

\* The board the generator accepted: true steps in the grid, no mapping
AcceptedBoard ==
    Board(grid_with_clues_from_path(n, path, clue_set), K, diag, NoDict, NoDict)

\* validate_path accepts the witness on a Board with grid=display_grid,
\* k=n*n and the adjacency of the call, with or without the mapping
WitnessValidates ==
    /\ validate_path(Board(display_grid, K, diag, NoDict, NoDict), path, diag)
         = <<TRUE, "OK">>
    /\ validate_path(Board(display_grid, K, diag, mapping, Inverse(mapping)),
                     path, diag)
         = <<TRUE, "OK">>

\* C1: for every (display_grid, witness path, mapping) that
\* generate_unique_puzzle returns, in fast or non-fast mode, validate_path
\* on a Board with grid=display_grid, k=n*n and the same adjacency returns
\* exactly (True, "OK") for the witness path.
C1_RoundTrip == Returned => WitnessValidates

\* A non-fast call has returned a puzzle whose clues were relabelled (they
\* are not the first C steps), and its witness validates
C1_Witness ==
    /\ pc = "returned"
    /\ ~FastCall
    /\ clue_set # 1..Cardinality(clue_set)
    /\ WitnessValidates

\* C2: the returned mapping is display_to_step: for every clue cell, if it
\* shows display number d and sits at 1-based position p of the witness
\* path, then mapping[d] = p.
C2_MappingIsDisplayToStep ==
    Returned =>
      \A p \in 1..K :
         DisplayAt(path[p]) > 0 =>
            /\ DisplayAt(path[p]) \in DOMAIN mapping
            /\ mapping[DisplayAt(path[p])] = p

\* C3: on the Board the callers build from the results (grid=display_grid,
\* display_to_step=mapping), every positive grid value is a key of
\* display_to_step, and givens() has exactly one entry per clue cell,
\* mapping the clue at witness position p to the p-th cell of the witness.
C3_CallerBoardGivens ==
    pc \in {"playing", "solved"} =>
      /\ \A cell \in Cells(n) :
            board.grid[cell[1]][cell[2]] > 0 =>
               board.grid[cell[1]][cell[2]] \in DOMAIN board.display_to_step
      /\ givens(board) = [p \in clue_set |-> path[p]]

\* C4: every path solve_backtracking returns for the Board the callers
\* build from a generated puzzle is accepted by validate_path on that Board.
C4_SolverPathValidates ==
    pc = "solved" /\ solver_path # NoPath =>
       validate_path(board, solver_path, board.diag)[1]

\* C5 as stated: every puzzle a non-fast call returns has exactly one
\* completion, an untimed count_solutions(board, limit=2) on the accepted
\* board being 1, also when the accepting count hit its deadline.
C5_UniqueAlways ==
    Returned /\ ~FastCall =>
       count_solutions(AcceptedBoard, diag, 2, NoDeadline) = 1

\* C5, amended: every puzzle a non-fast call returns after an accepting
\* count whose deadline did not pass has exactly one completion: an untimed
\* count_solutions(board, limit=2) on the accepted board is 1.
C5_UniqueUnlessExpired ==
    Returned /\ ~FastCall /\ ~expired =>
       count_solutions(AcceptedBoard, diag, 2, NoDeadline) = 1

\* A non-fast call has returned a puzzle with empty cells whose accepting
\* count ran to its end, and the untimed count is 1
C5_Witness ==
    /\ pc = "returned"
    /\ ~FastCall
    /\ ~expired
    /\ count = 1
    /\ Cardinality(clue_set) < K
    /\ count_solutions(AcceptedBoard, diag, 2, NoDeadline) = 1

\* The values of the mapping are 1..C, each of 1..C is shown by exactly one
\* cell, and of two clue cells the one earlier on the witness shows the
\* smaller number
ContiguousInOrder ==
    /\ {mapping[key] : key \in DOMAIN mapping} = 1..ClueCount
    /\ \A cell \in Cells(n) : DisplayAt(cell) \in 0..ClueCount
    /\ \A d \in 1..ClueCount :
          Cardinality({cell \in Cells(n) : DisplayAt(cell) = d}) = 1
    /\ \A p, q \in 1..K :
          p < q /\ DisplayAt(path[p]) > 0 /\ DisplayAt(path[q]) > 0
             => DisplayAt(path[p]) < DisplayAt(path[q])

\* C6: for every generated puzzle with C clues, the values of the returned
\* mapping are exactly 1..C, the positive cells of display_grid carry each
\* of 1..C exactly once, and display numbers increase strictly along the
\* witness path.
C6_ClueContiguity == Returned => ContiguousInOrder

\* A returned puzzle with empty cells between its clues
C6_Witness ==
    /\ pc = "returned"
    /\ ClueCount < K
    /\ clue_set # 1..Cardinality(clue_set)
    /\ ContiguousInOrder

\* The first cell of the witness shows 1 and the last shows C
EndClues ==
    /\ DisplayAt(path[1]) = 1
    /\ DisplayAt(path[K]) = ClueCount

\* C7: in every puzzle generate_unique_puzzle returns, fast or not, the
\* first cell of the witness shows display number 1 and the last cell
\* shows the highest display number C; the clue set of the densification
\* loop holds steps 1 and k throughout.
C7_EndClues ==
    /\ pc = "count" => {1, K} \subseteq clue_set
    /\ Returned => EndClues

\* A puzzle returned after the densification loop added a clue
C7_Witness ==
    /\ pc = "returned"
    /\ ~FastCall
    /\ Cardinality(clue_set) > CLUE_START
    /\ EndClues

\* C8: every puzzle generate_unique_puzzle returns for size n has a clue
\* count C with max(4, n) <= C <= min(n*n, n+8), for main's CLUE_START and
\* for the tests'.
C8_ClueCountBounds ==
    Returned =>
       /\ Max(4, n) <= ClueCount
       /\ ClueCount <= Min(n * n, n + 8)

(***************************************************************************)
(* Properties of validate_path  (under SpecValidate)                       *)
(***************************************************************************)

\* validate_path has returned
Validated == pc = "idle" /\ result # <<>>

\* |a - b|
Dist(a, b) == IF a >= b THEN a - b ELSE b - a

\* Two cells one move apart: a shared edge, or with d also a shared corner
Adjacent(a, b, d) ==
    /\ a # b
    /\ Dist(a[1], b[1]) <= 1
    /\ Dist(a[2], b[2]) <= 1
    /\ d \/ Dist(a[1], b[1]) + Dist(a[2], b[2]) = 1

\* A full-length, in-bounds, self-avoiding path of adjacent steps
WellFormed(b, p, d) ==
    /\ Len(p) = b.k
    /\ \A i \in 1..Len(p) : p[i] \in Cells(BoardN(b))
    /\ \A i, j \in 1..Len(p) : i # j => p[i] # p[j]
    /\ \A i \in 1..(Len(p) - 1) : Adjacent(p[i], p[i + 1], d)

\* The cell shows clue 1
ShowsClue1(b, cell) == b.grid[cell[1]][cell[2]] = 1

\* C9: validate_path rejects every path whose length differs from board.k
\* with the reason "Expected <k> steps, got <len>", whatever else is wrong
\* with the path (repeats, cells out of bounds, non-adjacent steps, clue
\* errors).
C9_LengthFirst ==
    Validated /\ Len(arg_path) # arg_board.k =>
       result = <<FALSE, "Expected " \o ToString(arg_board.k) \o " steps, got "
                           \o ToString(Len(arg_path))>>

\* A path one cell short that also repeats a cell, steps between
\* non-adjacent cells and misses clue 1, rejected for its length
C9_Witness ==
    /\ Validated
    /\ Len(arg_path) = 3
    /\ arg_path[1] = arg_path[3]
    /\ ~Adjacent(arg_path[1], arg_path[2], arg_diag)
    /\ \A cell \in Cells(2) : ~ShowsClue1(arg_board, cell)
    /\ result = <<FALSE, "Expected 4 steps, got 3">>

\* C10: validate_path rejects every full-length, self-avoiding, in-bounds,
\* adjacent path whose first cell does not show clue 1: with "Clue 1 must
\* be at the start" when another cell of the path shows clue 1, with "Must
\* start at clue 1" when none does.
C10_StartAtClue1 ==
    Validated /\ WellFormed(arg_board, arg_path, arg_diag)
              /\ ~ShowsClue1(arg_board, arg_path[1]) =>
       result = IF \E i \in 1..Len(arg_path) : ShowsClue1(arg_board, arg_path[i])
                THEN <<FALSE, "Clue 1 must be at the start">>
                ELSE <<FALSE, "Must start at clue 1">>

\* A well-formed path whose second cell shows clue 1, rejected
C10_Witness ==
    /\ Validated
    /\ WellFormed(arg_board, arg_path, arg_diag)
    /\ ShowsClue1(arg_board, arg_path[2])
    /\ result = <<FALSE, "Clue 1 must be at the start">>

\* The clue numbers shown by the cells of the path that lie on the board
CluesCrossed(b, p) ==
    {b.grid[cell[1]][cell[2]] : cell \in Range(p) \cap Cells(BoardN(b))} \ {0}

\* The cell shows clue number d
ShowsClue(b, cell, d) ==
    /\ cell \in Cells(BoardN(b))
    /\ b.grid[cell[1]][cell[2]] = d

\* The highest clue number the path crosses, 0 when it crosses none
HighestClue(b, p) ==
    IF CluesCrossed(b, p) = {} THEN 0 ELSE SetMax(CluesCrossed(b, p))

\* The first position of the path at a cell showing clue d
PositionOf(b, p, d) ==
    CHOOSE i \in 1..Len(p) :
       /\ ShowsClue(b, p[i], d)
       /\ \A h \in 1..(i - 1) : ~ShowsClue(b, p[h], d)

\* Of two clues the path crosses, it crosses the smaller number first
CluesInOrder(b, p) ==
    \A d, e \in CluesCrossed(b, p) :
       d < e => PositionOf(b, p, d) < PositionOf(b, p, e)

\* The clue numbers the path crosses are 1..C, none skipped
NoClueSkipped(b, p) ==
    CluesCrossed(b, p) = 1..Cardinality(CluesCrossed(b, p))

\* The path passes every check up to the clue-order check and its last
\* cell does not show the highest clue
EndsOffHighestClue(b, p, d) ==
    /\ WellFormed(b, p, d)
    /\ ShowsClue1(b, p[1])
    /\ CluesInOrder(b, p)
    /\ ~ShowsClue(b, p[Len(p)], HighestClue(b, p))

\* "Path must end at clue C, not continue beyond it"
EndReason(b, p) ==
    <<FALSE, "Path must end at clue " \o ToString(HighestClue(b, p))
               \o ", not continue beyond it">>

\* A path is accepted only if its last cell shows the highest clue
AcceptedEndsAtHighestClue ==
    Validated /\ result[1] =>
       /\ Len(arg_path) > 0
       /\ ShowsClue(arg_board, arg_path[Len(arg_path)],
                    HighestClue(arg_board, arg_path))

\* C11 as stated: validate_path rejects every path that passes the length,
\* repeat, bounds, adjacency, clue-1 and clue-order checks but whose final
\* cell is not the cell of the highest clue C with a reason naming "Path
\* must end at clue C", also when a clue number below C is on no cell; a
\* path is accepted only if the highest clue is at the final path index.
C11_EndReasonAsStated ==
    /\ Validated /\ EndsOffHighestClue(arg_board, arg_path, arg_diag) =>
          result = EndReason(arg_board, arg_path)
    /\ AcceptedEndsAtHighestClue

\* C11, amended: validate_path rejects every path that passes the length,
\* repeat, bounds, adjacency, clue-1, clue-order and skipped-clue checks
\* but whose final cell is not the cell of the highest clue C, with the
\* reason "Path must end at clue C, not continue beyond it"; a path is
\* accepted only if the highest clue is at the final path index.
C11_EndAtHighestClue ==
    /\ Validated /\ EndsOffHighestClue(arg_board, arg_path, arg_diag)
                 /\ NoClueSkipped(arg_board, arg_path) =>
          result = EndReason(arg_board, arg_path)
    /\ AcceptedEndsAtHighestClue

\* A well-formed path from clue 1 whose third cell shows the highest clue,
\* 2, and whose last cell is empty, rejected for running on
C11_Witness ==
    /\ Validated
    /\ EndsOffHighestClue(arg_board, arg_path, arg_diag)
    /\ NoClueSkipped(arg_board, arg_path)
    /\ ShowsClue(arg_board, arg_path[3], 2)
    /\ result = <<FALSE, "Path must end at clue 2, not continue beyond it">>

\* C12: validate_path accepts a path only if the clues it crosses occur at
\* strictly increasing path positions in the order of their numbers and
\* the set of clue numbers crossed is exactly 1..C with none skipped; a
\* path that visits clue j before clue i for i < j, or that never visits
\* some clue between 1 and the highest one it visits, is rejected.
C12_CluesAscendingNoGaps ==
    /\ Validated /\ result[1] =>
          /\ CluesInOrder(arg_board, arg_path)
          /\ NoClueSkipped(arg_board, arg_path)
    /\ Validated /\ WellFormed(arg_board, arg_path, arg_diag)
                 /\ ( \/ ~CluesInOrder(arg_board, arg_path)
                      \/ ~NoClueSkipped(arg_board, arg_path) ) =>
          ~result[1]

\* A well-formed path from clue 1 to the highest clue, 4, that crosses
\* clue 3 before clue 2, rejected for the order alone
C12_Witness ==
    /\ Validated
    /\ WellFormed(arg_board, arg_path, arg_diag)
    /\ ShowsClue(arg_board, arg_path[1], 1)
    /\ ShowsClue(arg_board, arg_path[2], 3)
    /\ ShowsClue(arg_board, arg_path[3], 2)
    /\ ShowsClue(arg_board, arg_path[4], 4)
    /\ result = <<FALSE, "Clues out of order">>

\* C13: every path accepted by validate_path on a Board with k = n*n
\* visits every cell of the grid exactly once and has path[i+1] in
\* board.neighbors(path[i]) under the adjacency mode used for validation,
\* for every index i.
C13_AcceptedCoversAdjacent ==
    Validated /\ result[1]
              /\ arg_board.k = BoardN(arg_board) * BoardN(arg_board) =>
       /\ \A cell \in Cells(BoardN(arg_board)) :
             Cardinality({i \in 1..Len(arg_path) : arg_path[i] = cell}) = 1
       /\ Range(arg_path) = Cells(BoardN(arg_board))
       /\ \A i \in 1..(Len(arg_path) - 1) :
             arg_path[i + 1] \in
                Range(neighbors(arg_board, arg_path[i][1], arg_path[i][2],
                                arg_diag))

\* An accepted path whose first step is diagonal, under 8-way adjacency
C13_Witness ==
    /\ Validated
    /\ result = <<TRUE, "OK">>
    /\ arg_diag
    /\ arg_path[2] = <<1, 1>>
    /\ Range(arg_path) = Cells(2)

\* C14: validate_path is total and always gives a reason: for every Board
\* and every finite sequence of integer coordinate pairs of any length
\* (including the empty sequence and out-of-bounds or negative
\* coordinates) it returns a (bool, string) pair without raising, returns
\* True only with "OK", and returns False only with a non-empty reason.
C14_TotalWithReason ==
    Validated =>
       /\ Len(result) = 2
       /\ result[1] \in BOOLEAN
       /\ result[2] \in STRING
       /\ result[1] => result[2] = "OK"
       /\ ~result[1] => result[2] # ""

\* The empty sequence, rejected with a reason
C14_Witness ==
    /\ Validated
    /\ arg_path = <<>>
    /\ result = <<FALSE, "Expected 4 steps, got 0">>

OneMoreClue ==
    pc = "count" /\ pc' = "count" =>
       /\ clue_set \subseteq clue_set'
       /\ Cardinality(clue_set') = Cardinality(clue_set) + 1
       /\ clue_set' \subseteq 1..K

\* C21: generate_unique_puzzle always terminates (each count_solutions call
\* terminating): it returns a puzzle or raises the generation-failure error
\* after at most MAX_GEN_ATTEMPTS witness-path attempts, the error only
\* after exactly that many, and every pass of the clue-densification loop
\* that does not leave it adds one clue to a set of at most k, so the loop
\* ends after finitely many additions.
C21_Terminates ==
    /\ <>GenerationEnded
    /\ [](attempts <= MAX_GEN_ATTEMPTS)
    /\ [](pc = "raised" => attempts = MAX_GEN_ATTEMPTS)
    /\ [][OneMoreClue]_vars
    /\ [](pc = "count" => <>(pc # "count"))

\* The RuntimeError raised after MAX_GEN_ATTEMPTS witnesses were given up,
\* the last of them after the densification loop had added clues
C21_Witness ==
    /\ pc = "raised"
    /\ attempts = MAX_GEN_ATTEMPTS
    /\ count # 1

(***************************************************************************)
(* Properties of the searches  (under SpecSearch)                          *)
(***************************************************************************)

\* count_solutions has returned
Counted == called = "count_solutions"

\* solve_backtracking has returned
Solved == called = "solve_backtracking"

\* C16: count_solutions(board, diag, limit, time_limit) returns an integer
\* in [0, limit] for every board, adjacency mode and limit, whether or not
\* the deadline expires during the search.
C16_CountWithinLimit ==
    Counted => ret_count \in 0..in_limit

\* The cells of an m x m board
Squares(m) == (0..m-1) \X (0..m-1)

\* The paths of P, each lengthened by a cell one move from its last and
\* not on it, in every way
Lengthened(m, d, P) ==
    UNION {{Append(p, c) : c \in {x \in Squares(m) \ Range(p) :
                                    Adjacent(p[Len(p)], x, d)}} : p \in P}

\* The paths of j cells of P, lengthened to m * m cells
RECURSIVE Covering(_, _, _, _)
Covering(m, d, P, j) ==
    IF j >= m * m THEN P ELSE Covering(m, d, Lengthened(m, d, P), j + 1)

\* The table of the sets of covering paths of the pairs <<m, d>> of S
RECURSIVE CoveringTable(_)
CoveringTable(S) ==
    IF S = {} THEN <<>>
    ELSE LET md == CHOOSE x \in S : TRUE
         IN  (md :> Covering(md[1], md[2], {<<c>> : c \in Squares(md[1])}, 1))
                @@ CoveringTable(S \ {md})

\* The self-avoiding paths of adjacent cells that cover an m x m board, for
\* each size and adjacency mode of the searches
CoveringPaths == CoveringTable(SearchSizes \X BOOLEAN)

\* The number a cell shows
Shown(b, cell) == b.grid[cell[1]][cell[2]]

\* The clue cells of the board
ClueCells(b) == {cell \in Cells(BoardN(b)) : Shown(b, cell) > 0}

\* The paths of P that have the given clue cells at their steps
RECURSIVE WithGivens(_, _, _)
WithGivens(P, b, clues) ==
    IF clues = {} THEN P
    ELSE LET cell == CHOOSE c \in clues : TRUE
         IN  WithGivens({p \in P : /\ Shown(b, cell) <= Len(p)
                                    /\ p[Shown(b, cell)] = cell},
                        b, clues \ {cell})

\* The path starts at clue 1's cell (at any cell if no cell shows 1), has
\* every given at its step, and crosses no clue cell at another step
Completes(b, p) ==
    /\ \A cell \in ClueCells(b) : Shown(b, cell) = 1 => p[1] = cell
    /\ \A cell \in ClueCells(b) :
          /\ Shown(b, cell) <= Len(p)
          /\ p[Shown(b, cell)] = cell
    /\ \A i \in 1..Len(p) : Shown(b, p[i]) \in {0, i}

\* N: the number of complete paths of the board (counted among the
\* covering paths that have the givens at their steps)
Completions(b, d) ==
    Cardinality({p \in WithGivens(CoveringPaths[<<BoardN(b), d>>], b, ClueCells(b)) :
                   Completes(b, p)})

EndCluesOnly(b) ==
    /\ BoardN(b) = 3
    /\ {Shown(b, cell) : cell \in ClueCells(b)} = {1, 9}
    /\ \E p \in CoveringPaths[<<3, FALSE>>] :
          Shown(b, p[1]) = 1 /\ Shown(b, p[9]) = 9

\* C18: on a 3x3 board with 4-way adjacency whose only clues are clue 1
\* and clue 9, placed at the first and last cell of any full-coverage path,
\* count_solutions with limit 2 (no deadline expiry) returns at least 2.
C18_EndCluesNotUnique ==
    Counted /\ ~timed_out /\ in_limit = 2 /\ ~in_diag
            /\ EndCluesOnly(in_board) =>
       ret_count >= 2

\* Such a board with clue 1 in a corner and clue 9 in the centre, counted
\* to 2
C18_Witness ==
    /\ Counted
    /\ ~timed_out
    /\ in_limit = 2
    /\ ~in_diag
    /\ EndCluesOnly(in_board)
    /\ Shown(in_board, <<0, 0>>) = 1
    /\ Shown(in_board, <<1, 1>>) = 9
    /\ ret_count = 2

\* The path is complete for the board: k cells of the board, none twice,
\* each one move from the one before, clue 1's cell first when clue 1 is
\* given, and every entry of givens() at its step
CompletePath(b, d, p) ==
    /\ Len(p) = b.k
    /\ \A i \in 1..Len(p) : p[i] \in Squares(BoardN(b))
    /\ \A i, j \in 1..Len(p) : i # j => p[i] # p[j]
    /\ \A i \in 1..(Len(p) - 1) : Adjacent(p[i], p[i + 1], d)
    /\ 1 \in DOMAIN givens(b) => p[1] = givens(b)[1]
    /\ \A s \in DOMAIN givens(b) : s <= Len(p) /\ p[s] = givens(b)[s]

\* C19: whatever solve_backtracking returns is either None or a complete
\* path: length exactly k, no repeated cell, every consecutive pair
\* adjacent under the given mode, first cell equal to clue 1's cell when
\* clue 1 is given, and every entry of board.givens() at exactly its true
\* step index; this holds at whatever recursive step the deadline expires,
\* so a partial path is never returned.
C19_NoneOrComplete ==
    Solved =>
       \/ ret_path = NoPath
       \/ CompletePath(in_board, in_diag, ret_path)

\* A board with a complete path on which the deadline passed in the middle
\* of the search: None is returned
C19_Witness ==
    /\ Solved
    /\ timed_out
    /\ in_deadline > 2
    /\ BoardN(in_board) = 3
    /\ Completions(in_board, in_diag) >= 1
    /\ ret_path = NoPath

\* C20: solver completeness: when the deadline does not expire,
\* solve_backtracking returns None only if no complete path consistent
\* with the givens exists; equivalently, whenever count_solutions (untimed)
\* on the same board is at least 1, solve_backtracking returns a path.
C20_SolverComplete ==
    Solved /\ ~timed_out =>
       /\ ret_path = NoPath => Completions(in_board, in_diag) = 0
       /\ count_solutions(in_board, in_diag, 1, NoDeadline) >= 1
             => ret_path # NoPath

\* A 3x3 board with exactly one complete path, which the search returns
\* after the deadline was set and did not pass
C20_Witness ==
    /\ Solved
    /\ ~timed_out
    /\ in_deadline # NoDeadline
    /\ BoardN(in_board) = 3
    /\ Completions(in_board, in_diag) = 1
    /\ Completes(in_board, ret_path)

(***************************************************************************)
(* One call of Board.neighbors                                             *)
(***************************************************************************)

\* The largest board a neighbors call is made on
MaxBoardN == 4

\* An m x m grid without clues
BlankGrid(m) == [r \in 0..(m - 1) |-> [c \in 0..(m - 1) |-> 0]]

\* board.neighbors(r, c) or board.neighbors(r, c, diag) is about to be
\* called with (r, c) on the board
InitNeighbors ==
    /\ \E m \in 1..MaxBoardN, d \in BOOLEAN :
         /\ nb_board = Board(BlankGrid(m), m * m, d, NoDict, NoDict)
         /\ nb_cell \in Cells(m)
    /\ nb_diag \in {"None", "False", "True"}
    /\ nb_out = <<>>
    /\ NoGeneration
    /\ NoValidation
    /\ NoSearch
    /\ NoDfs
    /\ NoGame

\* `if diag is None: diag = self.diag`
ModeUsed == IF nb_diag = "None" THEN nb_board.diag ELSE nb_diag = "True"

\* The call returns
CallNeighbors ==
    /\ nb_out = <<>>
    /\ nb_out' = <<neighbors(nb_board, nb_cell[1], nb_cell[2], ModeUsed)>>
    /\ UNCHANGED <<nb_board, nb_cell, nb_diag>>
    /\ UNCHANGED <<genvars, valvars, srchvars, dfsvars, gamevars>>

NextNeighbors == CallNeighbors

SpecNeighbors == InitNeighbors /\ [][NextNeighbors]_vars

(***************************************************************************)
(* The generation policy (under Spec)                                      *)
(***************************************************************************)

\* generate_unique_puzzle returns in this step
Returns == pc # "returned" /\ pc' = "returned"

\* The board of the clues cs on the witness p, as the inner loop builds it
\* for count_solutions
CountedBoard(p, cs) ==
    Board(grid_with_clues_from_path(n, p, cs), K, diag, NoDict, NoDict)

\* What a return outside fast mode follows at once: a count_solutions call
\* that returned 1, on the witness and clue set returned, whose board is
\* the puzzle returned (the count is made again here on the boards of at
\* most FullRandomN rows)
ReturnsAfterCountOfOne ==
    /\ pc = "count"
    /\ count' = 1
    /\ path' = path
    /\ clue_set' = clue_set
    /\ display_grid' =
         create_display_grid(CountedBoard(path', clue_set').grid, clue_set')[1]
    /\ n <= FullRandomN =>
         \E deadline \in Deadlines(K) :
           count_solutions(CountedBoard(path', clue_set'), diag, 2, deadline) = 1

\* C23: with FAST_MODE and n >= FAST_MODE_THRESHOLD count_solutions is never
\* called; in every other case a puzzle is returned only at once after a
\* count_solutions call on its exact clue set returned 1
C23_FastModeSwitch ==
    /\ [](FastCall => count = -1 /\ pc # "count")
    /\ [][Returns /\ ~FastCall => ReturnsAfterCountOfOne]_vars

\* A puzzle returned outside fast mode, after a clue was added
C23_Witness ==
    /\ pc = "returned"
    /\ ~FastCall
    /\ count = 1
    /\ Cardinality(clue_set) > Max(CLUE_START, 2)

\* p visits every cell of the m x m grid exactly once, each step to a cell
\* one move away in the mode d
Hamiltonian(m, d, p) ==
    /\ Len(p) = m * m
    /\ \A i \in 1..Len(p) : p[i] \in (0..m-1) \X (0..m-1)
    /\ \A i, j \in 1..Len(p) : i # j => p[i] # p[j]
    /\ \A i \in 1..(Len(p) - 1) : Adjacent(p[i], p[i + 1], d)

\* C25: a path _random_saw_cover_all(n, diag) returned has n*n cells, all
\* in bounds, none repeated, each next to the one before in the mode diag
C25_PathHamiltonian == path # NoPath => Hamiltonian(n, diag, path)

\* A 4-way witness path on the board below the fast-mode threshold that is
\* not the smallest
C25_Witness ==
    /\ pc = "count"
    /\ path # NoPath
    /\ ~diag
    /\ n > FullRandomN

\* The interior positions of the witness that are not clues
Unchosen == (2..(K - 1)) \ clue_set

\* The clue budget or the pool of unused positions is exhausted
Exhausted ==
    Cardinality(clue_set) >= get_clue_bounds(n)[2] \/ Unchosen = {}

\* One pass of the inner loop on a witness: the three ways it ends
PolicyStep ==
    pc = "count" =>
       /\ pc' = "returned" <=> count' = 1
       /\ pc' = "returned" => path' = path /\ clue_set' = clue_set
       /\ pc' = "attempt" <=> count' # 1 /\ Exhausted
       /\ pc' = "count" <=> count' # 1 /\ ~Exhausted
       /\ pc' = "count" =>
            /\ path' = path
            /\ \E idx \in Unchosen : clue_set' = clue_set \cup {idx}

\* C24: within one witness attempt a clue set is accepted exactly when the
\* count is 1, cut by the deadline or not; any other count adds exactly one
\* unchosen interior position before the next count, so the clue set only
\* grows; and the witness is given up only once the clue budget or the
\* unchosen positions are exhausted
C24_PolicyOrder ==
    /\ [][PolicyStep]_vars
    /\ [][pc = "count" => pc' \in {"count", "returned", "attempt"}]_vars
    /\ [](pc = "count" => more = Unchosen)

\* A clue set accepted on a count of 1 that the deadline cut, after the
\* counts of sparser clue sets on the same witness were not 1
C24_Witness ==
    /\ pc = "returned"
    /\ ~FastCall
    /\ count = 1
    /\ expired
    /\ Cardinality(clue_set) >= Max(CLUE_START, 2) + 2

(***************************************************************************)
(* Properties of the searches step by step (under SpecDfs)                 *)
(***************************************************************************)

\* _random_saw_cover_all has returned
SawDone == searching = "_random_saw_cover_all" /\ dfs.at = "done"

\* A covering path of the n x n board in the mode diag begins at cell
CoverableFrom(cell) ==
    \E p \in CoveringPaths[<<n, diag>>] : p[1] = cell

\* C26: whatever the shuffles, _random_saw_cover_all returns a path when a
\* covering path begins at the start cell it chose, and None exactly when
\* none does
C26_NoneOnlyWhenNoPath ==
    SawDone =>
       /\ dfs.ret <=> CoverableFrom(dfs.path[1])
       /\ dfs.ret => Len(dfs.path) = n * n

\* None returned from an odd-parity start of the 3x3 4-way board
C26_Witness ==
    /\ SawDone
    /\ ~dfs.ret
    /\ n = 3
    /\ ~diag
    /\ dfs.path[1] = <<0, 1>>

\* The clock has passed the deadline at a call of dfs already made
Late == Expired(entered, in_deadline)

\* C22: once the deadline has passed at an entry of dfs, none of the three
\* searches appends another cell to its path before it returns
C22_NoExtensionAfterExpiry ==
    [][Late => Len(dfs'.path) <= Len(dfs.path)]_vars

\* used holds exactly the cells on path, and path holds none twice
UsedIsPath ==
    /\ dfs.used = Range(dfs.path)
    /\ \A i, j \in 1..Len(dfs.path) : i # j => dfs.path[i] # dfs.path[j]

\* The path is as long as the calls of dfs under way are deep: one cell
\* for the start and one for each call below the innermost, which at its
\* entry has its own cell on the path already
PathAsDeepAsCalls ==
    /\ dfs.at = "enter" => Len(dfs.path) = Len(dfs.stack) + 1
    /\ dfs.at = "loop" => Len(dfs.path) = Len(dfs.stack)

\* A step changes path and used at the end of the path only, and both
\* alike: it appends an unused cell, or takes the last cell off both, or
\* (at the head of the loop over starts) begins again with one start cell
PushOrPop ==
    LET p == dfs.path
        q == dfs'.path
    IN  \/ q = p /\ dfs'.used = dfs.used
        \/ /\ Len(q) = Len(p) + 1
           /\ SubSeq(q, 1, Len(p)) = p
           /\ q[Len(q)] \notin dfs.used
           /\ dfs'.used = dfs.used \cup {q[Len(q)]}
        \/ /\ Len(p) > 1
           /\ q = SubSeq(p, 1, Len(p) - 1)
           /\ dfs'.used = dfs.used \ {p[Len(p)]}
        \/ /\ dfs.at = "start"
           /\ Len(q) = 1
           /\ dfs'.used = {q[1]}

\* A call of dfs returns False in this step: its caller takes the cell it
\* tried off path and used
FailedBranch ==
    /\ dfs'.at = "loop"
    /\ \/ dfs.at = "enter" /\ Len(dfs'.stack) = Len(dfs.stack)
       \/ dfs.at = "loop" /\ Len(dfs'.stack) < Len(dfs.stack)

\* The search has returned without a solution and without its clock
\* passing the deadline (the generator reads no clock)
FoundNothing ==
    /\ dfs.at = "done"
    /\ IF searching = "count_solutions" THEN dfs.count = 0 ELSE ~dfs.ret
    /\ searching = "_random_saw_cover_all" \/ ~Late

\* C28: in each of the three searches, at every entry of dfs used is the
\* set of cells on path and path repeats no cell; a failed branch takes
\* off path and used exactly the cell it added, so that path and used are
\* what they were before it; and after a search that found nothing without
\* expiry path holds one cell, the start
C28_PathAndVisited ==
    /\ [](searching # "none" /\ dfs.at = "enter" => UsedIsPath)
    /\ [](searching # "none" => PathAsDeepAsCalls)
    /\ [][PushOrPop]_vars
    /\ [][FailedBranch =>
            /\ dfs'.path = SubSeq(dfs.path, 1, Len(dfs.path) - 1)
            /\ dfs'.used = dfs.used \ {dfs.path[Len(dfs.path)]}
            /\ dfs'.used = Range(dfs'.path)]_vars
    /\ [](FoundNothing => Len(dfs.path) = 1 /\ dfs.used = {dfs.path[1]})

\* solve_backtracking has tried every walk on a 3x3 board and found none,
\* its clock never passing the deadline
C28_Witness ==
    /\ searching = "solve_backtracking"
    /\ FoundNothing
    /\ in_deadline = NoDeadline
    /\ BoardN(in_board) = 3
    /\ entered > 9

(***************************************************************************)
(* Properties of Board.neighbors (under SpecNeighbors)                     *)
(***************************************************************************)

\* The cells of the board one move from cell in the mode d
OneAway(b, cell, d) == {x \in Cells(BoardN(b)) : Adjacent(cell, x, d)}

\* C27: neighbors(r, c, diag) lists exactly the in-bounds cells at distance
\* one from (r, c) in the mode asked for, each once and never (r, c), and a
\* cell is listed for (r, c) iff (r, c) is listed for that cell
C27_NeighborsExact ==
    nb_out # <<>> =>
       LET out == nb_out[1]
       IN  /\ Range(out) = OneAway(nb_board, nb_cell, ModeUsed)
           /\ \A i, j \in 1..Len(out) : i # j => out[i] # out[j]
           /\ nb_cell \notin Range(out)
           /\ \A x \in Cells(BoardN(nb_board)) :
                x \in Range(out) <=>
                  nb_cell \in Range(neighbors(nb_board, x[1], x[2], ModeUsed))

\* The neighbours of an edge cell in 8-way mode
C27_Witness ==
    /\ nb_out # <<>>
    /\ nb_diag = "True"
    /\ BoardN(nb_board) = 3
    /\ nb_cell = <<0, 1>>
    /\ Len(nb_out[1]) = 5

(***************************************************************************)
(* A Game session  (src/src/UI/GUI.py)                                     *)
(***************************************************************************)

\* CELL_SIZE, as GUI.py imports it
CELL_SIZE == 80

GRID_MARGIN == 24

TOP_BAR == 48

\* min_window_width of Game.__init__
MinWindowWidth == 600

\* The move cap of solve_with_llm (llm_max_moves, set by the batch runner)
MaxLlmMoves == 3

\* max_stuck of solve_with_llm
MaxStuck == 3

\* A grid from its rows
GridOf(rows) ==
    [r \in 0..(Len(rows) - 1) |->
       [c \in 0..(Len(rows) - 1) |-> rows[r + 1][c + 1]]]

\* The grids of the sessions followed: 2x2 puzzles with a 4-way solution
GameGrids == {GridOf(<< <<1, 0>>, <<2, 0>> >>), GridOf(<< <<1, 0>>, <<3, 2>> >>)}

\* grid_start_x of to_screen, cell_at and give_hint: the grid is centred
\* in a window at least MinWindowWidth wide
GridStartX(b) ==
    LET grid_width == BoardN(b) * CELL_SIZE + 2 * GRID_MARGIN
        w == Max(MinWindowWidth, grid_width)
    IN  Max(GRID_MARGIN, (w - grid_width) \div 2)

\* The pixel at the centre of a cell, as give_hint computes fx, fy
CellCentre(b, cell) ==
    <<GridStartX(b) + cell[2] * CELL_SIZE + CELL_SIZE \div 2,
      TOP_BAR + GRID_MARGIN + cell[1] * CELL_SIZE + CELL_SIZE \div 2>>

\* Game.cell_at(pos), NoCoord for None
cell_at(b, pos) ==
    LET x == pos[1] - GridStartX(b)
        y == pos[2] - TOP_BAR - GRID_MARGIN
        r == y \div CELL_SIZE
        c == x \div CELL_SIZE
    IN  IF 0 <= r /\ r < BoardN(b) /\ 0 <= c /\ c < BoardN(b)
        THEN <<r, c>> ELSE NoCoord

\* The mouse positions of the events followed: the centre of each cell, and
\* a point left of the grid
MousePositions(b) ==
    {CellCentre(b, cell) : cell \in Cells(BoardN(b))} \cup {<<10, 100>>}

\* A faulty can_extend_to without the `cell in self.path` test
CanExtendToVisited(b, p, d, cell) ==
    /\ ~(Len(p) >= b.k)
    /\ p # <<>> => cell \in Range(neighbors(b, p[Len(p)][1], p[Len(p)][2], d))

\* Game.can_extend_to(cell) on the path p in the mode d
can_extend_to(b, p, d, cell) ==
    /\ ~(Len(p) >= b.k \/ cell \in Range(p))
    /\ p # <<>> => cell \in Range(neighbors(b, p[Len(p)][1], p[Len(p)][2], d))

\* [g[1]] if 1 in g else []
StartPath(b) ==
    LET g == givens(b) IN IF 1 \in DOMAIN g THEN <<g[1]>> ELSE <<>>

\* The number of leading cells p and q share: the `while` of give_hint
RECURSIVE CommonPrefix(_, _, _)
CommonPrefix(p, q, i) ==
    IF i < Len(p) /\ i < Len(q) /\ p[i + 1] = q[i + 1]
    THEN CommonPrefix(p, q, i + 1) ELSE i

\* The complete paths a caller can pass as solution: those validate_path
\* accepts in the board's mode
SolutionsOf(b) ==
    {p \in CoveringPaths[<<BoardN(b), b.diag>>] : validate_path(b, p, b.diag)[1]}

\* Game(board, solution, game_mode=...): the board is a puzzle in the mode
\* every caller passes; in llm mode the batch runner starts the thread
\* running solve_with_llm before it calls run()
InitGame ==
    /\ game_mode \in {"human", "llm"}
    /\ \E g \in GameGrids :
         game_board = Board(g, 4, ADJACENCY_8_WAY, NoDict, NoDict)
    /\ game_diag = game_board.diag
    /\ game_path = StartPath(game_board)
    /\ solution \in {NoPath} \cup SolutionsOf(game_board)
    /\ is_won = FALSE
    /\ dragging = FALSE
    /\ hint_segment = <<>>
    /\ victory = "no"
    /\ victory_transition_alpha = 0
    /\ llm_pc = IF game_mode = "llm" THEN "start" ELSE "off"
    /\ iteration = 0
    /\ stuck_count = 0
    /\ llm_cell = NoCoord
    /\ NoGeneration
    /\ NoValidation
    /\ NoSearch
    /\ NoDfs
    /\ NoNeighbors

\* `not self.showing_victory and not self.in_victory_transition`
Playing == victory = "no"

\* trigger_victory (on_win writes the leaderboard and the status line)
TriggerVictory ==
    /\ is_won' = TRUE
    /\ victory' = "transition"
    /\ victory_transition_alpha' = 0

\* auto_check_win() after the path became p
AutoCheckWin(p) ==
    IF is_won \/ Len(p) # game_board.k
    THEN UNCHANGED <<is_won, victory, victory_transition_alpha>>
    ELSE IF validate_path(game_board, p, game_diag)[1]
    THEN TriggerVictory
    ELSE UNCHANGED <<is_won, victory, victory_transition_alpha>>

\* MOUSEBUTTONDOWN, button 1, on the grid at pos
LeftClick ==
    /\ game_mode # "none"
    /\ Playing
    /\ \E pos \in MousePositions(game_board) :
         LET cell == cell_at(game_board, pos)
         IN  /\ cell # NoCoord
             /\ game_path' =
                  IF can_extend_to(game_board, game_path, game_diag, cell)
                  THEN Append(game_path, cell) ELSE game_path
             /\ dragging' = TRUE
             /\ AutoCheckWin(game_path')
    /\ UNCHANGED <<game_mode, game_board, game_diag, solution, hint_segment>>
    /\ UNCHANGED llmvars
    /\ UNCHANGED <<genvars, valvars, srchvars, dfsvars, nbvars>>

\* MOUSEBUTTONUP, button 1
MouseUp ==
    /\ game_mode # "none"
    /\ dragging
    /\ dragging' = FALSE
    /\ UNCHANGED <<game_mode, game_board, game_diag, game_path, solution,
                   is_won, hint_segment, victory, victory_transition_alpha>>
    /\ UNCHANGED llmvars
    /\ UNCHANGED <<genvars, valvars, srchvars, dfsvars, nbvars>>

\* MOUSEMOTION to pos while dragging: back onto the cell before the last
\* pops, onto a cell the path can extend to appends
Drag ==
    /\ game_mode # "none"
    /\ Playing
    /\ dragging
    /\ \E pos \in MousePositions(game_board) :
         LET cell == cell_at(game_board, pos)
             len == Len(game_path)
         IN  /\ cell # NoCoord
             /\ IF len >= 2 /\ cell = game_path[len - 1]
                THEN /\ game_path' = SubSeq(game_path, 1, len - 1)
                     /\ UNCHANGED <<is_won, victory, victory_transition_alpha>>
                ELSE IF can_extend_to(game_board, game_path, game_diag, cell)
                THEN /\ game_path' = Append(game_path, cell)
                     /\ AutoCheckWin(game_path')
                ELSE UNCHANGED <<game_path, is_won, victory,
                                 victory_transition_alpha>>
    /\ UNCHANGED <<game_mode, game_board, game_diag, solution, dragging,
                   hint_segment>>
    /\ UNCHANGED llmvars
    /\ UNCHANGED <<genvars, valvars, srchvars, dfsvars, nbvars>>

\* MOUSEBUTTONDOWN, button 3: the last cell is removed, unless the path is
\* the cell of clue 1 alone
RightClick ==
    /\ game_mode # "none"
    /\ Playing
    /\ game_path # <<>>
    /\ game_path # StartPath(game_board)
    /\ game_path' = SubSeq(game_path, 1, Len(game_path) - 1)
    /\ UNCHANGED <<game_mode, game_board, game_diag, solution, is_won,
                   dragging, hint_segment, victory, victory_transition_alpha>>
    /\ UNCHANGED llmvars
    /\ UNCHANGED <<genvars, valvars, srchvars, dfsvars, nbvars>>

\* The R key or the Reset button: reset_path()
ResetPath ==
    /\ game_mode # "none"
    /\ Playing
    /\ game_path' = StartPath(game_board)
    /\ hint_segment' = <<>>
    /\ is_won' = FALSE
    /\ victory' = "no"
    /\ victory_transition_alpha' = 0
    /\ UNCHANGED <<game_mode, game_board, game_diag, solution, dragging>>
    /\ UNCHANGED llmvars
    /\ UNCHANGED <<genvars, valvars, srchvars, dfsvars, nbvars>>

\* The D key: self.diag = not self.diag; self.board.diag = self.diag
ToggleAdjacency ==
    /\ game_mode # "none"
    /\ Playing
    /\ game_diag' = ~game_diag
    /\ game_board' = [game_board EXCEPT !.diag = ~game_diag]
    /\ UNCHANGED <<game_mode, game_path, solution, is_won, dragging,
                   hint_segment, victory, victory_transition_alpha>>
    /\ UNCHANGED llmvars
    /\ UNCHANGED <<genvars, valvars, srchvars, dfsvars, nbvars>>

\* A faulty hint that also draws the next cell onto the path
HintExtending(p, sol) ==
    LET i == CommonPrefix(p, sol, 0)
    IN  IF i = 0 THEN [path |-> <<>>, segment |-> <<>>, set |-> FALSE]
        ELSE IF i >= Len(sol)
        THEN [path |-> SubSeq(sol, 1, i), segment |-> <<>>, set |-> FALSE]
        ELSE [path |-> SubSeq(sol, 1, i + 1),
              segment |-> <<sol[i], sol[i + 1]>>, set |-> TRUE]

\* give_hint() once a solution sol is there, on the path p: the path it
\* leaves, and the cells from and to which the segment is drawn when it
\* sets one (solution[i-1] and solution[i], counted from 0 in the source)
Hint(p, sol) ==
    LET i == CommonPrefix(p, sol, 0)
        kept == IF i < Len(p)
                THEN IF i = 0 THEN <<>> ELSE SubSeq(sol, 1, i)
                ELSE p
    IN  IF i = 0 \/ i >= Len(sol)
        THEN [path |-> kept, segment |-> <<>>, set |-> FALSE]
        ELSE [path |-> kept, segment |-> <<sol[i], sol[i + 1]>>, set |-> TRUE]

\* ensure_solution(): what self.solution can be after it
EnsuredSolutions ==
    IF solution # NoPath THEN {solution}
    ELSE {solve_backtracking(game_board, game_diag, deadline)
          : deadline \in Deadlines(game_board.k)}

\* The Hint button: give_hint(), with ensure_solution() run first
GiveHint ==
    /\ game_mode # "none"
    /\ Playing
    /\ \E ensured \in EnsuredSolutions :
         /\ solution' = ensured
         /\ IF solution' = NoPath
            THEN UNCHANGED <<game_path, hint_segment>>
            ELSE LET h == Hint(game_path, solution')
                 IN  /\ game_path' = h.path
                     /\ hint_segment' =
                          IF h.set
                          THEN <<CellCentre(game_board, h.segment[1]),
                                 CellCentre(game_board, h.segment[2])>>
                          ELSE hint_segment
    /\ UNCHANGED <<game_mode, game_board, game_diag, is_won, dragging,
                   victory, victory_transition_alpha>>
    /\ UNCHANGED llmvars
    /\ UNCHANGED <<genvars, valvars, srchvars, dfsvars, nbvars>>

\* draw_grid() once the hint's 1800 ms have passed:
\* self.hint_segment = None
HintExpires ==
    /\ game_mode # "none"
    /\ Playing
    /\ hint_segment # <<>>
    /\ hint_segment' = <<>>
    /\ UNCHANGED <<game_mode, game_board, game_diag, game_path, solution,
                   is_won, dragging, victory, victory_transition_alpha>>
    /\ UNCHANGED llmvars
    /\ UNCHANGED <<genvars, valvars, srchvars, dfsvars, nbvars>>

\* The space key: check_path()
CheckPath ==
    /\ game_mode # "none"
    /\ Playing
    /\ IF /\ Len(game_path) = game_board.k
          /\ validate_path(game_board, game_path, game_diag)[1]
       THEN TriggerVictory
       ELSE UNCHANGED <<is_won, victory, victory_transition_alpha>>
    /\ UNCHANGED <<game_mode, game_board, game_diag, game_path, solution,
                   dragging, hint_segment>>
    /\ UNCHANGED llmvars
    /\ UNCHANGED <<genvars, valvars, srchvars, dfsvars, nbvars>>

\* The frames of update_victory_transition() up to the one in which
\* victory_transition_alpha reaches 255
VictoryFrames ==
    /\ victory = "transition"
    /\ victory_transition_alpha' = 255
    /\ victory' = "showing"
    /\ UNCHANGED <<game_mode, game_board, game_diag, game_path, solution,
                   is_won, dragging, hint_segment>>
    /\ UNCHANGED llmvars
    /\ UNCHANGED <<genvars, valvars, srchvars, dfsvars, nbvars>>

\* solve_with_llm up to its loop: self.is_won = False
LlmStart ==
    /\ llm_pc = "start"
    /\ is_won' = FALSE
    /\ llm_pc' = "loop"
    /\ UNCHANGED <<game_mode, game_board, game_diag, game_path, solution,
                   dragging, hint_segment, victory, victory_transition_alpha>>
    /\ UNCHANGED <<iteration, stuck_count, llm_cell>>
    /\ UNCHANGED <<genvars, valvars, srchvars, dfsvars, nbvars>>

\* The loop test and llm_solver.solve(): the model answers with a cell of
\* the board or with nothing that parses
LlmPropose ==
    /\ llm_pc = "loop"
    /\ IF ~is_won /\ iteration < MaxLlmMoves /\ stuck_count < MaxStuck
       THEN /\ iteration' = iteration + 1
            /\ \E cell \in Cells(BoardN(game_board)) \cup {NoCoord} :
                 IF cell = NoCoord
                 THEN /\ stuck_count' = stuck_count + 1
                      /\ UNCHANGED <<llm_pc, llm_cell>>
                 ELSE /\ llm_cell' = cell
                      /\ llm_pc' = "check"
                      /\ UNCHANGED stuck_count
       ELSE /\ llm_pc' = "ended"
            /\ UNCHANGED <<iteration, stuck_count, llm_cell>>
    /\ UNCHANGED guivars
    /\ UNCHANGED <<genvars, valvars, srchvars, dfsvars, nbvars>>

\* is_valid = self.can_extend_to(cell)
LlmCheck ==
    /\ llm_pc = "check"
    /\ IF can_extend_to(game_board, game_path, game_diag, llm_cell)
       THEN /\ llm_pc' = "append"
            /\ UNCHANGED stuck_count
       ELSE /\ llm_pc' = "loop"
            /\ stuck_count' = stuck_count + 1
    /\ UNCHANGED <<iteration, llm_cell>>
    /\ UNCHANGED guivars
    /\ UNCHANGED <<genvars, valvars, srchvars, dfsvars, nbvars>>

\* `if is_valid: stuck_count = 0; self.path.append(cell)`
LlmAppend ==
    /\ llm_pc = "append"
    /\ stuck_count' = 0
    /\ game_path' = Append(game_path, llm_cell)
    /\ llm_pc' = "validate"
    /\ UNCHANGED <<game_mode, game_board, game_diag, solution, is_won,
                   dragging, hint_segment, victory, victory_transition_alpha>>
    /\ UNCHANGED <<iteration, llm_cell>>
    /\ UNCHANGED <<genvars, valvars, srchvars, dfsvars, nbvars>>

\* `if len(self.path) == self.board.k: ok, msg = validate_path(...)`
LlmValidate ==
    /\ llm_pc = "validate"
    /\ llm_pc' = IF /\ Len(game_path) = game_board.k
                    /\ validate_path(game_board, game_path, game_diag)[1]
                 THEN "win" ELSE "loop"
    /\ UNCHANGED <<iteration, stuck_count, llm_cell>>
    /\ UNCHANGED guivars
    /\ UNCHANGED <<genvars, valvars, srchvars, dfsvars, nbvars>>

\* `if ok: self.is_won = True`
LlmWin ==
    /\ llm_pc = "win"
    /\ is_won' = TRUE
    /\ llm_pc' = "loop"
    /\ UNCHANGED <<game_mode, game_board, game_diag, game_path, solution,
                   dragging, hint_segment, victory, victory_transition_alpha>>
    /\ UNCHANGED <<iteration, stuck_count, llm_cell>>
    /\ UNCHANGED <<genvars, valvars, srchvars, dfsvars, nbvars>>

\* The events the main thread handles in run()
GuiEvent ==
    \/ LeftClick
    \/ MouseUp
    \/ Drag
    \/ RightClick
    \/ ResetPath
    \/ ToggleAdjacency
    \/ GiveHint
    \/ HintExpires
    \/ CheckPath
    \/ VictoryFrames

\* The steps of the thread running solve_with_llm
LlmStep ==
    \/ LlmStart
    \/ LlmPropose
    \/ LlmCheck
    \/ LlmAppend
    \/ LlmValidate
    \/ LlmWin

NextGame == GuiEvent \/ LlmStep

SpecGame == InitGame /\ [][NextGame]_vars

\* A session in human mode: no thread runs solve_with_llm
InitHuman == InitGame /\ game_mode = "human"

NextHuman == GuiEvent

SpecHuman == InitHuman /\ [][NextHuman]_vars

(***************************************************************************)
(* Properties of a Game session (under SpecHuman and SpecGame)             *)
(***************************************************************************)

\* p and q agree on their first j cells
AgreeOn(p, q, j) ==
    j <= Len(p) /\ j <= Len(q) /\ \A x \in 1..j : p[x] = q[x]

\* The length of the longest common prefix of p and q
LongestCommonPrefix(p, q) ==
    CHOOSE j \in 0..Len(p) :
       AgreeOn(p, q, j) /\ \A l \in (j + 1)..Len(p) : ~AgreeOn(p, q, l)

\* What a hint leaves, i being the length of the longest common prefix of
\* the path before it and the solution: the path cut to that prefix, so
\* never longer than before, and for 0 < i < len(solution) a segment whose
\* ends lie in the cells solution[i-1] and solution[i]
HintLeaves ==
    LET i == LongestCommonPrefix(game_path, solution')
    IN  /\ game_path' = SubSeq(game_path, 1, i)
        /\ Len(game_path') <= Len(game_path)
        /\ 0 < i /\ i < Len(solution') =>
              /\ Len(hint_segment') = 2
              /\ cell_at(game_board, hint_segment'[1]) = solution'[i]
              /\ cell_at(game_board, hint_segment'[2]) = solution'[i + 1]

\* C29: a give_hint that has a solution cuts the player's path to its
\* longest common prefix with the solution, never extends it, and for
\* 0 < i < len(solution) draws the hint from solution[i-1] to solution[i]
C29_HintNextEdge ==
    [][GiveHint /\ solution' # NoPath => HintLeaves]_vars

\* A hint has been given on a path of two cells and points at the third
\* cell of the solution, found by the solver after the mode was toggled
C29_Witness ==
    /\ game_mode = "human"
    /\ hint_segment # <<>>
    /\ game_diag
    /\ solution # NoPath
    /\ Len(game_path) = 2
    /\ game_path = SubSeq(solution, 1, 2)
    /\ cell_at(game_board, hint_segment[2]) = solution[3]

\* The player's path visits no cell twice and has at most k cells
PathSound ==
    /\ \A i, j \in 1..Len(game_path) : i # j => game_path[i] # game_path[j]
    /\ Len(game_path) <= game_board.k

\* is_won becomes true in this step
Wins == ~is_won /\ is_won'

\* C30: in every state of a session, whatever clicks, drags, right clicks,
\* resets, hints and adjacency toggles came before and however the moves
\* of the thread running solve_with_llm fell between them, the player's
\* path has no repeated cell and at most k cells; the board's grid never
\* changes; and is_won becomes true only with a path validate_path accepts
\* in the adjacency mode then in force
C30_SessionInvariant ==
    /\ []PathSound
    /\ [][game_board'.grid = game_board.grid]_vars
    /\ [][Wins => validate_path(game_board', game_path', game_diag')[1]]_vars

=============================================================================
